---- MODULE Spec2Model ----
(***************************************************************************)
(* Offline tile cache (TileCache, IndexedDB) and bulk tile preloader       *)
(* (TilePreloader) of the embedded map view.                               *)
(*                                                                         *)
(* The event loop is single threaded: every action below is one task of    *)
(* the loop, i.e. the code that runs from the settling of one awaited      *)
(* operation (IndexedDB request, fetch, timer) up to the next await.       *)
(***************************************************************************)
EXTENDS Integers, Sequences, FiniteSets, TLC

(***************************************************************************)
(* Bounds of the model.                                                    *)
(***************************************************************************)
NumTiles == 3        \* the TileSet is cut to its first NumTiles tiles
NumBlobs == 2        \* distinct blobs that direct callers save
MaxCalls == 2        \* preloadAll invocations per behaviour
MaxFetches == 2      \* network fetches the tile layer issues per tile
MaxBusy == 2         \* components at work together in SpecEntries
MaxStorageOps == 2   \* AsyncStorage operations of the hook awaited at once
\* most processions the repository is let to hold
MaxProcessions == 2
\* distinct contents a procession's data can have
NumRevs == 2
\* tile coordinates handed to getTileUrl range over 0..MaxCoord
MaxCoord == 5

(***************************************************************************)
(* Program constants.                                                      *)
(***************************************************************************)
DefaultConcurrency == 4
\* the version passed to indexedDB.open
DbVersion == 1
\* handleProgress: newProgress.percentage >= 90
PreloadedPercentage == 90   \* preloadAll(concurrency = 4)
HuelvaZoom == 14          \* first entry of zoomLevels
HuelvaX0 == 7874          \* latLngToTile(north, west, 14).x
HuelvaY0 == 6361          \* latLngToTile(north, west, 14).y
HuelvaRows == 3           \* y range 6361..6363 at zoom 14

Undefined == "undefined"  \* the JavaScript value undefined
Blobs == {"blob" \o ToString(n) : n \in 1..NumBlobs}
TileIds == 1..NumTiles
Callers == {"caller1", "caller2"}  \* concurrent direct users of TileCache
CallerTiles == {i \in TileIds : i <= 2}  \* the tiles they address
Concurrencies == 1..DefaultConcurrency

\* tile content is immutable: the tile server answers a request for tile i
\* with the same image every time
TileImage(i) == "png" \o ToString(i)

Min(a, b) == IF a < b THEN a ELSE b

(***************************************************************************)
(* getHuelvaTiles(): for each zoom, x outer loop, y inner loop.  The model *)
(* keeps the first NumTiles tiles of that enumeration (all at zoom 14).    *)
(***************************************************************************)
getHuelvaTiles ==
  [i \in TileIds |-> [z |-> HuelvaZoom,
                      x |-> HuelvaX0 + ((i - 1) \div HuelvaRows),
                      y |-> HuelvaY0 + ((i - 1) % HuelvaRows)]]

tiles == getHuelvaTiles

(***************************************************************************)
(* TileCache.getKey: z + '/' + x + '/' + y                                 *)
(***************************************************************************)
getKeyNoY(z, x, y) == ToString(z) \o "/" \o ToString(x)

getKey(z, x, y) == ToString(z) \o "/" \o ToString(x) \o "/" \o ToString(y)

KeyOf(i) == getKey(tiles[i].z, tiles[i].x, tiles[i].y)

Keys == {KeyOf(i) : i \in TileIds}

(***************************************************************************)
(* Math.round(num / den * 100 ...) on non-negative rationals: round half   *)
(* up.  (For totals below 40 the double computation (k/total)*100 rounds   *)
(* to the same integer as the exact quotient.)                             *)
(***************************************************************************)
MathFloor(num, den) == num \div den

MathRound(num, den) == (2 * num + den) \div (2 * den)

(***************************************************************************)
(* TilePreloader.updateProgress: recompute percentage and isComplete of    *)
(* the progress record (which is then dispatched / posted).                *)
(***************************************************************************)
updateProgressLoadedOnly(p) ==
  [p EXCEPT !.percentage = MathRound((p.loaded + p.failed) * 100, p.total),
            !.isComplete = (p.loaded >= p.total)]

\* a faulty variant of updateProgress: percentage counts loaded tiles only
updateProgressLoadedShare(p) ==
  [p EXCEPT !.percentage = MathRound(p.loaded * 100, p.total),
            !.isComplete = ((p.loaded + p.failed) >= p.total)]

updateProgress(p) ==
  [p EXCEPT !.percentage = MathRound((p.loaded + p.failed) * 100, p.total),
            !.isComplete = ((p.loaded + p.failed) >= p.total)]

VARIABLES
  db,            \* TileCache.db: "null" or "open"
  bootInit,      \* the TileCache.init() issued at script load
  store,         \* the IndexedDB object store: key -> blob or Undefined
  saved,         \* history: per tile, blob of the last successful saveTile
  clients,       \* direct callers of the Tile Store API
  isPreloading,  \* TilePreloader.isPreloading
  progress,      \* TilePreloader.progress
  queue,         \* preloadAll's local copy `tiles` (tile ids not yet batched)
  concurrency,   \* preloadAll's argument
  runPc,         \* "idle", "batch" (awaiting Promise.all), "delay", "rejected"
  batch,         \* tile ids of the batch being awaited
  attempt,       \* per tile: position of its preloadTile call and fetched blob
  calls,         \* number of preloadAll invocations so far
  runs,          \* number of those that started a run
  runResult,     \* settlement of the promise of the latest started run
  runStats,      \* history of the current run: fetches, saveTile calls, faults
  cc,            \* checkCachedCount: position, loop index, cached counter
  idb,           \* the IndexedDB database behind TileCache
  req,           \* per tile: the tile layer's request (createTile) for it
  preloadStatus, \* AsyncStorage value under PRELOAD_STATUS_KEY
  hookProgress,  \* useTilePreload state `progress`: <<>> is null
  isPreloaded,   \* useTilePreload state
  isFirstLoad,   \* useTilePreload state
  storageOps,    \* awaited AsyncStorage operations, in the order issued
  mountRead,     \* checkPreloadStatus's getItem: "pending", "ok", "failed"
  repo,          \* MockRepository.processions
  cache,         \* DataService.cache: <<>> is null, <<list>> a cached list
  dsCalls,       \* per caller: position of its DataService call
  notified,      \* list last handed to DataService's listeners, <<>> none
  tileArg,       \* argument of the latest getTileUrl call
  tileUrl        \* URL returned by the latest getTileUrl call

storeVars == <<db, idb, bootInit, store, saved, clients>>
preloadVars == <<isPreloading, progress, queue, concurrency, runPc, batch,
                 attempt, calls, runs, runResult, runStats>>
ccVars == <<cc>>
providerVars == <<req>>
hookVars == <<preloadStatus, hookProgress, isPreloaded, isFirstLoad,
              storageOps, mountRead>>
dataVars == <<repo, cache, dsCalls, notified>>
urlVars == <<tileArg, tileUrl>>
vars == <<db, bootInit, store, saved, clients, isPreloading, progress, queue,
          concurrency, runPc, batch, attempt, calls, runs, runResult, runStats,
          cc, idb, req, preloadStatus, hookProgress, isPreloaded, isFirstLoad,
          storageOps, mountRead, repo, cache, dsCalls, notified, tileArg,
          tileUrl>>

IdleAttempt == [pc |-> "idle", blob |-> Undefined]
IdleClient == [op |-> "none", pc |-> "idle", tile |-> 1, blob |-> Undefined,
               status |-> "none", value |-> Undefined, tileCount |-> 0]
NoStats == [fetches |-> 0, saves |-> 0, faults |-> 0, readFailed |-> FALSE,
            emptyStart |-> FALSE]
IdleCc == [pc |-> "idle", idx |-> 0, cached |-> 0, readFailed |-> FALSE,
           storeChanged |-> FALSE]

\* before the first open there is no database: version 0, no object store
NoDatabase == [version |-> 0, hasStore |-> FALSE, created |-> 0]
IdleReq == [pc |-> "idle", src |-> Undefined, fromCache |-> FALSE,
            onerror |-> "tileOnError", fetches |-> 0, saveInit |-> 0,
            saveTx |-> 0, saveFailed |-> FALSE]

\* the progress literal of the generated object and of the reset in preloadAll
\* a procession: its id and the rest of its fields (one of NumRevs contents)
Revs == 1..NumRevs

\* `this.processions = processionsData`: the repository starts with the
\* processions of the bundled JSON file
processionsData == <<[id |-> 1, rev |-> 1]>>

IdleCall == [op |-> "none", pc |-> "idle", id |-> 0, rev |-> 0]

InitialProgress == [total |-> Len(tiles), loaded |-> 0, failed |-> 0,
                    percentage |-> 0, isComplete |-> FALSE]

Present(s) == {i \in TileIds : s[KeyOf(i)] # Undefined}

Init ==
  /\ db = "null"
  /\ bootInit = "pending"
  /\ store = [k \in Keys |-> Undefined]
  /\ saved = [i \in TileIds |-> Undefined]
  /\ clients = [c \in Callers |-> IdleClient]
  /\ isPreloading = FALSE
  /\ progress = InitialProgress
  /\ queue = <<>>
  /\ concurrency = DefaultConcurrency
  /\ runPc = "idle"
  /\ batch = {}
  /\ attempt = [i \in TileIds |-> IdleAttempt]
  /\ calls = 0
  /\ runs = 0
  /\ runResult = [state |-> "none", value |-> InitialProgress]
  /\ runStats = NoStats
  /\ cc = IdleCc
  /\ idb = NoDatabase
  /\ req = [t \in TileIds |-> IdleReq]
  /\ preloadStatus = "null"
  /\ hookProgress = <<>>
  /\ isPreloaded = FALSE
  /\ isFirstLoad = TRUE
  /\ storageOps = <<[op |-> "getItem", result |-> "queued",
                     value |-> "null", event |-> <<>>]>>
  /\ mountRead = "pending"
  /\ repo = processionsData
  /\ cache = <<>>
  /\ dsCalls = [c \in Callers |-> IdleCall]
  /\ notified = <<>>
  /\ tileArg = tiles[1]
  /\ tileUrl = <<>>

(***************************************************************************)
(* Tile Store primitives.                                                  *)
(***************************************************************************)
\* `if (!this.db) await this.init();` then the transaction: an operation
\* called while db is null first awaits its own indexedDB.open request.
OpStartPc(op) == IF db = "null" THEN op \o ".init" ELSE op \o ".tx"

\* request.onupgradeneeded: the object store is created when it is absent
onupgradeneeded(d) ==
  IF d.hasStore THEN d
  ELSE [d EXCEPT !.hasStore = TRUE, !.created = @ + 1]

\* a faulty variant of OpenOk: every open runs the upgrade and creates the
\* object store again
OpenOkRecreate ==
  /\ idb' = [idb EXCEPT !.version = DbVersion, !.hasStore = TRUE,
                        !.created = @ + 1]
  /\ db' = "open"

\* indexedDB.open(dbName, dbVersion) succeeded: the upgrade ran first when
\* the database was older than dbVersion, then onsuccess set this.db
OpenOk ==
  /\ idb' = IF idb.version < DbVersion
            THEN [onupgradeneeded(idb) EXCEPT !.version = DbVersion]
            ELSE idb
  /\ db' = "open"

\* checkCachedCount history: did the set of cached tiles change mid-walk
CcObserve(newStore) ==
  cc' = IF cc.pc \in {"hasTile.init", "hasTile.tx"}
           /\ Present(newStore) # Present(store)
        THEN [cc EXCEPT !.storeChanged = TRUE]
        ELSE cc

\* a faulty variant of StorePut: an insert that keeps an existing entry
StorePutIfAbsent(i, b) ==
  LET kept == IF store[KeyOf(i)] = Undefined THEN b ELSE store[KeyOf(i)]
  IN /\ store' = [store EXCEPT ![KeyOf(i)] = kept]
     /\ saved' = [saved EXCEPT ![i] = b]
     /\ CcObserve([store EXCEPT ![KeyOf(i)] = kept])

\* a faulty variant of StorePut: the write drops every other entry
StorePutAlone(i, b) ==
  /\ store' = [k \in Keys |-> IF k = KeyOf(i) THEN b ELSE Undefined]
  /\ saved' = [saved EXCEPT ![i] = b]
  /\ CcObserve([k \in Keys |-> IF k = KeyOf(i) THEN b ELSE Undefined])

\* store.put(blob, key) succeeded for tile i
StorePut(i, b) ==
  /\ store' = [store EXCEPT ![KeyOf(i)] = b]
  /\ saved' = [saved EXCEPT ![i] = b]
  /\ CcObserve([store EXCEPT ![KeyOf(i)] = b])

\* store.clear() succeeded
StoreClear ==
  /\ store' = [k \in Keys |-> Undefined]
  /\ saved' = [i \in TileIds |-> Undefined]
  /\ CcObserve([k \in Keys |-> Undefined])

(***************************************************************************)
(* TilePreloader.preloadTile, one action per settling of an awaited        *)
(* operation.                                                              *)
(***************************************************************************)
SetAttempt(i, pc, b) ==
  attempt' = [attempt EXCEPT ![i] = [pc |-> pc, blob |-> b]]

\* this.progress.loaded++; this.updateProgress(); return true
CountLoaded == progress' = updateProgress([progress EXCEPT !.loaded = @ + 1])

\* this.progress.failed++; this.updateProgress(); return false
CountFailed == progress' = updateProgress([progress EXCEPT !.failed = @ + 1])

\* const response = await fetch(url) is issued
StartFetch(i) ==
  /\ SetAttempt(i, "fetch", Undefined)
  /\ runStats' = [runStats EXCEPT !.fetches = @ + 1]

\* catch (e) { continue to fetch } after a failed read of the store
CatchRead(i) ==
  /\ SetAttempt(i, "fetch", Undefined)
  /\ runStats' = [runStats EXCEPT !.fetches = @ + 1, !.readFailed = TRUE]

\* a faulty variant of CatchFailed: the failed attempt also counts as loaded
CatchFailedBoth(i) ==
  /\ progress' = updateProgress([progress EXCEPT !.failed = @ + 1,
                                                 !.loaded = @ + 1])
  /\ SetAttempt(i, "failed", Undefined)
  /\ runStats' = [runStats EXCEPT !.faults = @ + 1]

\* the catch block of the fetch-and-cache try: the tile counts as failed
CatchFailed(i) ==
  /\ CountFailed
  /\ SetAttempt(i, "failed", Undefined)
  /\ runStats' = [runStats EXCEPT !.faults = @ + 1]

\* getTile: the lazy init succeeded, the read transaction is issued
GetTileInitOk(i) ==
  /\ attempt[i].pc = "getTile.init"
  /\ OpenOk
  /\ SetAttempt(i, "getTile.tx", Undefined)
  /\ UNCHANGED <<bootInit, store, saved, clients, isPreloading, progress,
                 queue, concurrency, runPc, batch, calls, runs, runResult,
                 runStats, ccVars, providerVars, hookVars, dataVars, urlVars>>

\* getTile: the lazy init failed, getTile rejects: catch (e) { continue }
GetTileInitFail(i) ==
  /\ attempt[i].pc = "getTile.init"
  /\ CatchRead(i)
  /\ UNCHANGED <<storeVars, isPreloading, progress, queue, concurrency,
                 runPc, batch, calls, runs, runResult, ccVars, providerVars,
                 hookVars, dataVars, urlVars>>

\* a faulty variant of GetTileHit: counts the tile but forgets `return true`
GetTileHitNoReturn(i) ==
  /\ attempt[i].pc = "getTile.tx"
  /\ store[KeyOf(i)] # Undefined
  /\ CountLoaded
  /\ StartFetch(i)
  /\ UNCHANGED <<storeVars, isPreloading, queue, concurrency, runPc, batch,
                 calls, runs, runResult, ccVars, providerVars, hookVars, dataVars, urlVars>>

\* a faulty variant of GetTileHit: the stored tile is ignored and fetched
GetTileHitRefetch(i) ==
  /\ attempt[i].pc = "getTile.tx"
  /\ store[KeyOf(i)] # Undefined
  /\ StartFetch(i)
  /\ UNCHANGED <<storeVars, isPreloading, progress, queue, concurrency,
                 runPc, batch, calls, runs, runResult, ccVars, providerVars,
                 hookVars, dataVars, urlVars>>

\* getTile resolved with a stored blob: if (cached) { loaded++ ... }
GetTileHit(i) ==
  /\ attempt[i].pc = "getTile.tx"
  /\ store[KeyOf(i)] # Undefined
  /\ CountLoaded
  /\ SetAttempt(i, "loaded", Undefined)
  /\ UNCHANGED <<storeVars, isPreloading, queue, concurrency, runPc, batch,
                 calls, runs, runResult, runStats, ccVars, providerVars,
                 hookVars, dataVars, urlVars>>

\* getTile resolved with undefined: fall through to the fetch
GetTileMiss(i) ==
  /\ attempt[i].pc = "getTile.tx"
  /\ store[KeyOf(i)] = Undefined
  /\ StartFetch(i)
  /\ UNCHANGED <<storeVars, isPreloading, progress, queue, concurrency,
                 runPc, batch, calls, runs, runResult, ccVars, providerVars,
                 hookVars, dataVars, urlVars>>

\* a faulty variant of GetTileError: the read error escapes preloadTile
GetTileErrorThrows(i) ==
  /\ attempt[i].pc = "getTile.tx"
  /\ SetAttempt(i, "rejected", Undefined)
  /\ UNCHANGED <<storeVars, isPreloading, progress, queue, concurrency,
                 runPc, batch, calls, runs, runResult, runStats, ccVars,
                 providerVars, hookVars, dataVars, urlVars>>

\* the read request failed (request.onerror): catch (e) { continue }
GetTileError(i) ==
  /\ attempt[i].pc = "getTile.tx"
  /\ CatchRead(i)
  /\ UNCHANGED <<storeVars, isPreloading, progress, queue, concurrency,
                 runPc, batch, calls, runs, runResult, ccVars, providerVars,
                 hookVars, dataVars, urlVars>>

\* a faulty variant of FetchReject: the failed tile is counted as loaded
FetchRejectLoaded(i) ==
  /\ attempt[i].pc = "fetch"
  /\ CountLoaded
  /\ SetAttempt(i, "loaded", Undefined)
  /\ runStats' = [runStats EXCEPT !.faults = @ + 1]
  /\ UNCHANGED <<storeVars, isPreloading, queue, concurrency, runPc, batch,
                 calls, runs, runResult, ccVars, providerVars, hookVars, dataVars, urlVars>>

\* fetch rejected (network error)
FetchReject(i) ==
  /\ attempt[i].pc = "fetch"
  /\ CatchFailed(i)
  /\ UNCHANGED <<storeVars, isPreloading, queue, concurrency, runPc, batch,
                 calls, runs, runResult, ccVars, providerVars, hookVars, dataVars, urlVars>>

\* if (!response.ok) throw new Error('Network error')
FetchNotOk(i) ==
  /\ attempt[i].pc = "fetch"
  /\ CatchFailed(i)
  /\ UNCHANGED <<storeVars, isPreloading, queue, concurrency, runPc, batch,
                 calls, runs, runResult, ccVars, providerVars, hookVars, dataVars, urlVars>>

\* response.ok: await response.blob() is issued
FetchOk(i) ==
  /\ attempt[i].pc = "fetch"
  /\ SetAttempt(i, "blob", Undefined)
  /\ UNCHANGED <<storeVars, isPreloading, progress, queue, concurrency,
                 runPc, batch, calls, runs, runResult, runStats, ccVars,
                 providerVars, hookVars, dataVars, urlVars>>

\* response.blob() rejected (body could not be read)
BlobReject(i) ==
  /\ attempt[i].pc = "blob"
  /\ CatchFailed(i)
  /\ UNCHANGED <<storeVars, isPreloading, queue, concurrency, runPc, batch,
                 calls, runs, runResult, ccVars, providerVars, hookVars, dataVars, urlVars>>

\* a faulty variant of BlobOk: the blob is counted without being saved
BlobOkNoSave(i) ==
  /\ attempt[i].pc = "blob"
  /\ CountLoaded
  /\ SetAttempt(i, "loaded", Undefined)
  /\ UNCHANGED <<storeVars, isPreloading, queue, concurrency, runPc, batch,
                 calls, runs, runResult, runStats, ccVars, providerVars,
                 hookVars, dataVars, urlVars>>

\* response.blob() resolved: await TileCache.saveTile(z, x, y, blob)
BlobOk(i) ==
  /\ attempt[i].pc = "blob"
  /\ SetAttempt(i, OpStartPc("saveTile"), TileImage(i))
  /\ runStats' = [runStats EXCEPT !.saves = @ + 1]
  /\ UNCHANGED <<storeVars, isPreloading, progress, queue, concurrency,
                 runPc, batch, calls, runs, runResult, ccVars, providerVars,
                 hookVars, dataVars, urlVars>>

\* saveTile: the lazy init succeeded, the write transaction is issued
SaveTileInitOk(i) ==
  /\ attempt[i].pc = "saveTile.init"
  /\ OpenOk
  /\ SetAttempt(i, "saveTile.tx", attempt[i].blob)
  /\ UNCHANGED <<bootInit, store, saved, clients, isPreloading, progress,
                 queue, concurrency, runPc, batch, calls, runs, runResult,
                 runStats, ccVars, providerVars, hookVars, dataVars, urlVars>>

\* saveTile: the lazy init failed, saveTile rejects
SaveTileInitFail(i) ==
  /\ attempt[i].pc = "saveTile.init"
  /\ CatchFailed(i)
  /\ UNCHANGED <<storeVars, isPreloading, queue, concurrency, runPc, batch,
                 calls, runs, runResult, ccVars, providerVars, hookVars, dataVars, urlVars>>

\* store.put succeeded: loaded++
SaveTileOk(i) ==
  /\ attempt[i].pc = "saveTile.tx"
  /\ StorePut(i, attempt[i].blob)
  /\ CountLoaded
  /\ SetAttempt(i, "loaded", Undefined)
  /\ UNCHANGED <<db, idb, bootInit, clients, isPreloading, queue,
                 concurrency, runPc, batch, calls, runs, runResult, runStats,
                 providerVars, hookVars, dataVars, urlVars>>

\* store.put failed (request.onerror, e.g. quota exceeded)
SaveTileError(i) ==
  /\ attempt[i].pc = "saveTile.tx"
  /\ CatchFailed(i)
  /\ UNCHANGED <<storeVars, isPreloading, queue, concurrency, runPc, batch,
                 calls, runs, runResult, ccVars, providerVars, hookVars, dataVars, urlVars>>

preloadTile(i) ==
  \/ GetTileInitOk(i)
  \/ GetTileInitFail(i)
  \/ GetTileHit(i)
  \/ GetTileMiss(i)
  \/ GetTileError(i)
  \/ FetchReject(i)
  \/ FetchNotOk(i)
  \/ FetchOk(i)
  \/ BlobReject(i)
  \/ BlobOk(i)
  \/ SaveTileInitOk(i)
  \/ SaveTileInitFail(i)
  \/ SaveTileOk(i)
  \/ SaveTileError(i)

(***************************************************************************)
(* TilePreloader.preloadAll and its processBatch closure.                  *)
(***************************************************************************)
\* the for loop shifts up to `c` tiles off the queue; batch.map starts the
\* preloadTile call of each of them, which runs up to its first await
StartBatch(q, c, base) ==
  LET n == Min(c, Len(q))
      b == {q[j] : j \in 1..n}
  IN /\ batch' = b
     /\ queue' = SubSeq(q, n + 1, Len(q))
     /\ attempt' = [i \in TileIds |->
                      IF i \in b
                      THEN [pc |-> OpStartPc("getTile"), blob |-> Undefined]
                      ELSE base[i]]
     /\ runPc' = "batch"

\* a faulty variant of StartRun: the progress record is not reset
StartRunKeepsProgress(c) ==
  /\ isPreloading' = TRUE
  /\ progress' = updateProgress(progress)
  /\ concurrency' = c
  /\ runs' = runs + 1
  /\ runResult' = [state |-> "pending", value |-> InitialProgress]
  /\ runStats' = [NoStats EXCEPT !.emptyStart = (Present(store) = {})]
  /\ StartBatch([i \in TileIds |-> i], c, [i \in TileIds |-> IdleAttempt])
  /\ UNCHANGED <<storeVars, ccVars, providerVars, hookVars, dataVars, urlVars>>

\* the body of preloadAll after the isPreloading check
StartRun(c) ==
  /\ isPreloading' = TRUE
  /\ progress' = updateProgress(InitialProgress)
  /\ concurrency' = c
  /\ runs' = runs + 1
  /\ runResult' = [state |-> "pending", value |-> InitialProgress]
  /\ runStats' = [NoStats EXCEPT !.emptyStart = (Present(store) = {})]
  /\ StartBatch([i \in TileIds |-> i], c, [i \in TileIds |-> IdleAttempt])
  /\ UNCHANGED <<storeVars, ccVars, providerVars, hookVars, dataVars, urlVars>>

\* a faulty variant of preloadAll: no `if (this.isPreloading) return`
preloadAllNoGuard(c) ==
  /\ calls < MaxCalls
  /\ calls' = calls + 1
  /\ StartRun(c)

preloadAll(c) ==
  /\ calls < MaxCalls
  /\ calls' = calls + 1
  /\ IF isPreloading
     THEN UNCHANGED <<storeVars, isPreloading, progress, queue, concurrency,
                      runPc, batch, attempt, runs, runResult, runStats,
                      ccVars, providerVars, hookVars, dataVars, urlVars>>
     ELSE StartRun(c)

\* a faulty variant of PromiseAllSettles: isPreloading is never reset
PromiseAllSettlesStuck ==
  /\ runPc = "batch"
  /\ \A i \in batch : attempt[i].pc \in {"loaded", "failed"}
  /\ IF queue # <<>>
     THEN /\ runPc' = "delay"
          /\ UNCHANGED <<isPreloading, runResult, batch, attempt>>
     ELSE /\ runPc' = "idle"
          /\ runResult' = [state |-> "resolved", value |-> progress]
          /\ batch' = {}
          /\ attempt' = [i \in TileIds |-> IdleAttempt]
          /\ UNCHANGED isPreloading
  /\ UNCHANGED <<storeVars, progress, queue, concurrency, calls, runs,
                 runStats, ccVars, providerVars, hookVars, dataVars, urlVars>>

\* a faulty variant of PromiseAllSettles: Promise.race in place of
\* Promise.all, the batch is left as soon as one attempt has settled
PromiseAllSettlesRace ==
  /\ runPc = "batch"
  /\ \E i \in batch : attempt[i].pc \in {"loaded", "failed"}
  /\ IF queue # <<>>
     THEN /\ runPc' = "delay"
          /\ UNCHANGED <<isPreloading, runResult, batch, attempt>>
     ELSE /\ runPc' = "idle"
          /\ isPreloading' = FALSE
          /\ runResult' = [state |-> "resolved", value |-> progress]
          /\ batch' = {}
          /\ attempt' = [i \in TileIds |-> IdleAttempt]
  /\ UNCHANGED <<storeVars, progress, queue, concurrency, calls, runs,
                 runStats, ccVars, providerVars, hookVars, dataVars, urlVars>>

\* await Promise.all(batch.map(...)) settles; then either the pacing timer
\* is set, or processBatch returns and preloadAll finishes
PromiseAllSettles ==
  /\ runPc = "batch"
  /\ \/ \E i \in batch : attempt[i].pc = "rejected"
     \/ \A i \in batch : attempt[i].pc \in {"loaded", "failed"}
  /\ IF \E i \in batch : attempt[i].pc = "rejected"
     THEN /\ runPc' = "rejected"
          /\ runResult' = [state |-> "rejected", value |-> progress]
          /\ UNCHANGED <<isPreloading, batch, attempt>>
     ELSE IF queue # <<>>
     THEN /\ runPc' = "delay"
          /\ UNCHANGED <<isPreloading, runResult, batch, attempt>>
     ELSE /\ runPc' = "idle"
          /\ isPreloading' = FALSE
          /\ runResult' = [state |-> "resolved", value |-> progress]
          /\ batch' = {}
          /\ attempt' = [i \in TileIds |-> IdleAttempt]
  /\ UNCHANGED <<storeVars, progress, queue, concurrency, calls, runs,
                 runStats, ccVars, providerVars, hookVars, dataVars, urlVars>>

\* setTimeout(resolve, 50) fires: return processBatch()
TimerFires ==
  /\ runPc = "delay"
  /\ StartBatch(queue, concurrency, attempt)
  /\ UNCHANGED <<storeVars, isPreloading, progress, concurrency, calls, runs,
                 runResult, runStats, ccVars, providerVars, hookVars, dataVars, urlVars>>

(***************************************************************************)
(* TilePreloader.checkCachedCount: a sequential walk over this.tiles, one  *)
(* awaited TileCache.hasTile per tile.  At pc "returned", cc.cached and    *)
(* Len(tiles) are the cached and total fields of the returned record.      *)
(***************************************************************************)
\* the loop moves to the next tile, or the function returns
CcAdvance(n, failed) ==
  cc' = IF cc.idx < Len(tiles)
        THEN [cc EXCEPT !.pc = OpStartPc("hasTile"), !.idx = @ + 1,
                        !.cached = n,
                        !.readFailed = cc.readFailed \/ failed]
        ELSE [cc EXCEPT !.pc = "returned", !.cached = n,
                        !.readFailed = cc.readFailed \/ failed]

\* let cached = 0; first loop iteration up to `await TileCache.hasTile`
checkCachedCount ==
  /\ cc.pc \in {"idle", "returned"}
  /\ cc' = [pc |-> OpStartPc("hasTile"), idx |-> 1, cached |-> 0,
            readFailed |-> FALSE, storeChanged |-> FALSE]
  /\ UNCHANGED <<storeVars, preloadVars, providerVars, hookVars, dataVars, urlVars>>

\* hasTile -> getTile: the lazy init succeeded
CcInitOk ==
  /\ cc.pc = "hasTile.init"
  /\ OpenOk
  /\ cc' = [cc EXCEPT !.pc = "hasTile.tx"]
  /\ UNCHANGED <<bootInit, store, saved, clients, preloadVars, providerVars,
                 hookVars, dataVars, urlVars>>

\* hasTile -> getTile: the lazy init failed: catch (e) { ignore }
CcInitFail ==
  /\ cc.pc = "hasTile.init"
  /\ CcAdvance(cc.cached, TRUE)
  /\ UNCHANGED <<storeVars, preloadVars, providerVars, hookVars, dataVars, urlVars>>

\* a faulty variant of CcHasTileOk: counts every tile whose read succeeded
CcHasTileOkCountsAll ==
  /\ cc.pc = "hasTile.tx"
  /\ CcAdvance(cc.cached + 1, FALSE)
  /\ UNCHANGED <<storeVars, preloadVars, providerVars, hookVars, dataVars, urlVars>>

\* hasTile resolved with `tile !== undefined`: if (exists) cached++
CcHasTileOk ==
  /\ cc.pc = "hasTile.tx"
  /\ LET exists == store[KeyOf(cc.idx)] # Undefined
     IN CcAdvance(IF exists THEN cc.cached + 1 ELSE cc.cached, FALSE)
  /\ UNCHANGED <<storeVars, preloadVars, providerVars, hookVars, dataVars, urlVars>>

\* the read request failed: catch (e) { ignore }
CcHasTileError ==
  /\ cc.pc = "hasTile.tx"
  /\ CcAdvance(cc.cached, TRUE)
  /\ UNCHANGED <<storeVars, preloadVars, providerVars, hookVars, dataVars, urlVars>>

CountNext ==
  \/ checkCachedCount
  \/ CcInitOk
  \/ CcInitFail
  \/ CcHasTileOk
  \/ CcHasTileError

(***************************************************************************)
(* The TileCache.init() call at script load.                               *)
(***************************************************************************)
BootInitOk ==
  /\ bootInit = "pending"
  /\ bootInit' = "done"
  /\ OpenOk
  /\ UNCHANGED <<store, saved, clients, preloadVars, ccVars, providerVars,
                 hookVars, dataVars, urlVars>>

BootInitFail ==
  /\ bootInit = "pending"
  /\ bootInit' = "failed"
  /\ UNCHANGED <<db, idb, store, saved, clients, preloadVars, ccVars,
                 providerVars, hookVars, dataVars, urlVars>>

BootNext == BootInitOk \/ BootInitFail

(***************************************************************************)
(* Direct callers of the Tile Store API (the tile layer, the debug         *)
(* console): getTile, hasTile, saveTile, clear.                            *)
(***************************************************************************)
SetClient(c, r) == clients' = [clients EXCEPT ![c] = r]

\* the synchronous part of a TileCache method up to its first await
ClientCall(c, op, t, b) ==
  /\ clients[c].pc \in {"idle", "done"}
  /\ SetClient(c, [op |-> op, pc |-> IF db = "null" THEN "init" ELSE "tx",
                   tile |-> t, blob |-> b, status |-> "pending",
                   value |-> Undefined, tileCount |-> 0])
  /\ UNCHANGED <<db, idb, bootInit, store, saved, preloadVars, ccVars,
                 providerVars, hookVars, dataVars, urlVars>>

getTile(c, t) == ClientCall(c, "getTile", t, Undefined)

hasTile(c, t) == ClientCall(c, "hasTile", t, Undefined)

saveTile(c, t, b) == ClientCall(c, "saveTile", t, b)

clear(c) == ClientCall(c, "clear", 1, Undefined)

getStats(c) == ClientCall(c, "getStats", 1, Undefined)

\* await this.init() resolved
ClientInitOk(c) ==
  /\ clients[c].pc = "init"
  /\ OpenOk
  /\ SetClient(c, [clients[c] EXCEPT !.pc = "tx"])
  /\ UNCHANGED <<bootInit, store, saved, preloadVars, ccVars, providerVars,
                 hookVars, dataVars, urlVars>>

\* await this.init() rejected: the method rejects
ClientInitFail(c) ==
  /\ clients[c].pc = "init"
  /\ SetClient(c, [clients[c] EXCEPT !.pc = "done", !.status = "error",
                                     !.blob = Undefined])
  /\ UNCHANGED <<db, idb, bootInit, store, saved, preloadVars, ccVars,
                 providerVars, hookVars, dataVars, urlVars>>

\* request.onsuccess of store.get: resolve(request.result)
GetTileOk(c) ==
  /\ clients[c].pc = "tx"
  /\ clients[c].op = "getTile"
  /\ SetClient(c, [clients[c] EXCEPT !.pc = "done", !.status = "ok",
                                     !.value = store[KeyOf(clients[c].tile)]])
  /\ UNCHANGED <<db, idb, bootInit, store, saved, preloadVars, ccVars,
                 providerVars, hookVars, dataVars, urlVars>>

\* hasTile: return tile !== undefined
HasTileOk(c) ==
  /\ clients[c].pc = "tx"
  /\ clients[c].op = "hasTile"
  /\ SetClient(c, [clients[c] EXCEPT
                     !.pc = "done", !.status = "ok",
                     !.value = IF store[KeyOf(clients[c].tile)] # Undefined
                               THEN "true" ELSE "false"])
  /\ UNCHANGED <<db, idb, bootInit, store, saved, preloadVars, ccVars,
                 providerVars, hookVars, dataVars, urlVars>>

\* request.onsuccess of store.put(blob, key)
SaveTileDone(c) ==
  /\ clients[c].pc = "tx"
  /\ clients[c].op = "saveTile"
  /\ StorePut(clients[c].tile, clients[c].blob)
  /\ SetClient(c, [clients[c] EXCEPT !.pc = "done", !.status = "ok",
                                     !.blob = Undefined])
  /\ UNCHANGED <<db, idb, bootInit, preloadVars, providerVars, hookVars, dataVars, urlVars>>

\* request.onsuccess of store.clear()
ClearDone(c) ==
  /\ clients[c].pc = "tx"
  /\ clients[c].op = "clear"
  /\ StoreClear
  /\ SetClient(c, [clients[c] EXCEPT !.pc = "done", !.status = "ok"])
  /\ UNCHANGED <<db, idb, bootInit, preloadVars, providerVars, hookVars, dataVars, urlVars>>

\* request.onsuccess of store.count(): resolve({ tileCount: request.result })
GetStatsOk(c) ==
  /\ clients[c].pc = "tx"
  /\ clients[c].op = "getStats"
  /\ SetClient(c, [clients[c] EXCEPT
                     !.pc = "done", !.status = "ok",
                     !.tileCount = Cardinality({k \in Keys :
                                                 store[k] # Undefined})])
  /\ UNCHANGED <<db, idb, bootInit, store, saved, preloadVars, ccVars,
                 providerVars, hookVars, dataVars, urlVars>>

\* request.onerror: reject(request.error)
ClientTxError(c) ==
  /\ clients[c].pc = "tx"
  /\ SetClient(c, [clients[c] EXCEPT !.pc = "done", !.status = "error",
                                     !.blob = Undefined])
  /\ UNCHANGED <<db, idb, bootInit, store, saved, preloadVars, ccVars,
                 providerVars, hookVars, dataVars, urlVars>>

ClientSettles(c) ==
  \/ ClientInitOk(c)
  \/ ClientInitFail(c)
  \/ GetTileOk(c)
  \/ HasTileOk(c)
  \/ SaveTileDone(c)
  \/ ClearDone(c)
  \/ GetStatsOk(c)
  \/ ClientTxError(c)

StoreNext ==
  \/ \E c \in Callers, t \in CallerTiles : getTile(c, t)
  \/ \E c \in Callers, t \in CallerTiles : hasTile(c, t)
  \/ \E c \in Callers, t \in CallerTiles, b \in Blobs : saveTile(c, t, b)
  \/ \E c \in Callers : clear(c)
  \/ \E c \in Callers : getStats(c)
  \/ \E c \in Callers : ClientSettles(c)
  \/ BootNext

\* the Tile Store under concurrent direct callers
SpecStore == Init /\ [][StoreNext]_vars

(***************************************************************************)
(* The Caching Tile Provider (L.TileLayer.Cached): createTile, _loadTile   *)
(* and _fetchAndCacheTile for the tile image of tile t, one action per     *)
(* settling of a promise or image event.  saveTile is not awaited: its     *)
(* calls in flight are counted in saveInit (awaiting the lazy init) and    *)
(* saveTx (awaiting the put request).                                      *)
(***************************************************************************)
SetReq(t, r) == req' = [req EXCEPT ![t] = r]

\* fetch(url) is issued by _fetchAndCacheTile
FetchAndCache(t) ==
  SetReq(t, [req[t] EXCEPT !.pc = "fetch", !.fetches = @ + 1])

\* self._tileOnError.call(self, err, tile, coords)
TileError(t) == SetReq(t, [req[t] EXCEPT !.pc = "error"])

\* createTile: a new img with the layer's handlers, then _loadTile reads
\* the store
createTile(t) ==
  /\ req[t].pc \in {"idle", "ready", "error"}
  /\ req[t].fetches < MaxFetches
  /\ SetReq(t, [req[t] EXCEPT !.pc = OpStartPc("getTile"),
                              !.src = Undefined, !.fromCache = FALSE,
                              !.onerror = "tileOnError",
                              !.saveFailed = FALSE])
  /\ UNCHANGED <<storeVars, preloadVars, ccVars, hookVars, dataVars, urlVars>>

\* getTile: the lazy init succeeded, the read transaction is issued
LoadTileInitOk(t) ==
  /\ req[t].pc = "getTile.init"
  /\ OpenOk
  /\ SetReq(t, [req[t] EXCEPT !.pc = "getTile.tx"])
  /\ UNCHANGED <<bootInit, store, saved, clients, preloadVars, ccVars,
                 hookVars, dataVars, urlVars>>

\* getTile rejected because the store could not be opened: .catch(() => ...)
LoadTileInitFail(t) ==
  /\ req[t].pc = "getTile.init"
  /\ FetchAndCache(t)
  /\ UNCHANGED <<storeVars, preloadVars, ccVars, hookVars, dataVars, urlVars>>

\* a faulty variant of LoadTileHit: the stored blob is ignored and fetched
LoadTileHitFetches(t) ==
  /\ req[t].pc = "getTile.tx"
  /\ store[KeyOf(t)] # Undefined
  /\ FetchAndCache(t)
  /\ UNCHANGED <<storeVars, preloadVars, ccVars, hookVars, dataVars, urlVars>>

\* if (cachedBlob): the image is pointed at the stored blob, onload
\* signals tile ready and onerror falls back to _fetchAndCacheTile
LoadTileHit(t) ==
  /\ req[t].pc = "getTile.tx"
  /\ store[KeyOf(t)] # Undefined
  /\ SetReq(t, [req[t] EXCEPT !.pc = "decode", !.src = store[KeyOf(t)],
                              !.fromCache = TRUE, !.onerror = "refetch"])
  /\ UNCHANGED <<storeVars, preloadVars, ccVars, hookVars, dataVars, urlVars>>

\* else: not in cache, fetch from network
LoadTileMiss(t) ==
  /\ req[t].pc = "getTile.tx"
  /\ store[KeyOf(t)] = Undefined
  /\ FetchAndCache(t)
  /\ UNCHANGED <<storeVars, preloadVars, ccVars, hookVars, dataVars, urlVars>>

\* a faulty variant of LoadTileError: the read error becomes a tile error
LoadTileErrorSurfaces(t) ==
  /\ req[t].pc = "getTile.tx"
  /\ TileError(t)
  /\ UNCHANGED <<storeVars, preloadVars, ccVars, hookVars, dataVars, urlVars>>

\* the read request failed: .catch(() => self._fetchAndCacheTile(...))
LoadTileError(t) ==
  /\ req[t].pc = "getTile.tx"
  /\ FetchAndCache(t)
  /\ UNCHANGED <<storeVars, preloadVars, ccVars, hookVars, dataVars, urlVars>>

\* the image decoded: tile.onload revokes the URL and calls _tileOnLoad
ImageLoads(t) ==
  /\ req[t].pc = "decode"
  /\ SetReq(t, [req[t] EXCEPT !.pc = "ready"])
  /\ UNCHANGED <<storeVars, preloadVars, ccVars, hookVars, dataVars, urlVars>>

\* a faulty variant of ImageFails: a decode failure is always a tile error
ImageFailsSurfaces(t) ==
  /\ req[t].pc = "decode"
  /\ TileError(t)
  /\ UNCHANGED <<storeVars, preloadVars, ccVars, hookVars, dataVars, urlVars>>

\* the image failed to decode: tile.onerror, which is the fallback to
\* _fetchAndCacheTile once the cached path installed it and the layer's
\* _tileOnError binding of createTile otherwise
ImageFails(t) ==
  /\ req[t].pc = "decode"
  /\ IF req[t].onerror = "refetch"
     THEN /\ req[t].fetches < MaxFetches
          /\ FetchAndCache(t)
     ELSE TileError(t)
  /\ UNCHANGED <<storeVars, preloadVars, ccVars, hookVars, dataVars, urlVars>>

\* a faulty variant of FetchFails: the failed fetch is tried again
FetchFailsRetries(t) ==
  /\ req[t].pc = "fetch"
  /\ req[t].fetches < MaxFetches
  /\ FetchAndCache(t)
  /\ UNCHANGED <<storeVars, preloadVars, ccVars, hookVars, dataVars, urlVars>>

\* fetch rejected, or resolved with !response.ok (throw new Error):
\* .catch(err => self._tileOnError(...))
FetchFails(t) ==
  /\ req[t].pc = "fetch"
  /\ TileError(t)
  /\ UNCHANGED <<storeVars, preloadVars, ccVars, hookVars, dataVars, urlVars>>

\* response.ok: return response.blob()
FetchSucceeds(t) ==
  /\ req[t].pc = "fetch"
  /\ SetReq(t, [req[t] EXCEPT !.pc = "blob"])
  /\ UNCHANGED <<storeVars, preloadVars, ccVars, hookVars, dataVars, urlVars>>

\* response.blob() rejected: the same .catch
BlobFails(t) ==
  /\ req[t].pc = "blob"
  /\ TileError(t)
  /\ UNCHANGED <<storeVars, preloadVars, ccVars, hookVars, dataVars, urlVars>>

\* a faulty variant of BlobArrives: the blob is displayed but never saved
BlobArrivesNoSave(t) ==
  /\ req[t].pc = "blob"
  /\ SetReq(t, [req[t] EXCEPT !.pc = "decode", !.src = TileImage(t),
                              !.fromCache = FALSE])
  /\ UNCHANGED <<storeVars, preloadVars, ccVars, hookVars, dataVars, urlVars>>

\* .then(blob => ...): saveTile is called and not awaited, the image is
\* pointed at the fetched blob and onload is set to signal tile ready
BlobArrives(t) ==
  /\ req[t].pc = "blob"
  /\ SetReq(t, [req[t] EXCEPT
                  !.pc = "decode", !.src = TileImage(t), !.fromCache = FALSE,
                  !.saveInit = IF db = "null" THEN @ + 1 ELSE @,
                  !.saveTx = IF db = "null" THEN @ ELSE @ + 1])
  /\ UNCHANGED <<storeVars, preloadVars, ccVars, hookVars, dataVars, urlVars>>

\* saveTile: the lazy init succeeded, the put is issued
ProviderSaveInitOk(t) ==
  /\ req[t].saveInit > 0
  /\ OpenOk
  /\ SetReq(t, [req[t] EXCEPT !.saveInit = @ - 1, !.saveTx = @ + 1])
  /\ UNCHANGED <<bootInit, store, saved, clients, preloadVars, ccVars,
                 hookVars, dataVars, urlVars>>

\* saveTile rejected on its init: .catch(err => console.warn(...))
ProviderSaveInitFail(t) ==
  /\ req[t].saveInit > 0
  /\ SetReq(t, [req[t] EXCEPT !.saveInit = @ - 1, !.saveFailed = TRUE])
  /\ UNCHANGED <<storeVars, preloadVars, ccVars, hookVars, dataVars, urlVars>>

\* request.onsuccess of the put: the fetched blob is stored
ProviderSaveOk(t) ==
  /\ req[t].saveTx > 0
  /\ StorePut(t, TileImage(t))
  /\ SetReq(t, [req[t] EXCEPT !.saveTx = @ - 1])
  /\ UNCHANGED <<db, idb, bootInit, clients, preloadVars, hookVars, dataVars, urlVars>>

\* a faulty variant of ProviderSaveError: the failed write evicts the entry
ProviderSaveErrorEvicts(t) ==
  /\ req[t].saveTx > 0
  /\ store' = [store EXCEPT ![KeyOf(t)] = Undefined]
  /\ saved' = [saved EXCEPT ![t] = Undefined]
  /\ CcObserve([store EXCEPT ![KeyOf(t)] = Undefined])
  /\ SetReq(t, [req[t] EXCEPT !.saveTx = @ - 1, !.saveFailed = TRUE])
  /\ UNCHANGED <<db, idb, bootInit, clients, preloadVars, hookVars, dataVars, urlVars>>

\* a faulty variant of ProviderSaveError: the failed write is reported as
\* a tile error
ProviderSaveErrorSurfaces(t) ==
  /\ req[t].saveTx > 0
  /\ SetReq(t, [req[t] EXCEPT !.saveTx = @ - 1, !.saveFailed = TRUE,
                              !.pc = "error"])
  /\ UNCHANGED <<storeVars, preloadVars, ccVars, hookVars, dataVars, urlVars>>

\* request.onerror of the put: .catch(err => console.warn(...))
ProviderSaveError(t) ==
  /\ req[t].saveTx > 0
  /\ SetReq(t, [req[t] EXCEPT !.saveTx = @ - 1, !.saveFailed = TRUE])
  /\ UNCHANGED <<storeVars, preloadVars, ccVars, hookVars, dataVars, urlVars>>

\* the settling of whatever the provider awaits for tile t
ProviderSettles(t) ==
  \/ LoadTileInitOk(t)
  \/ LoadTileInitFail(t)
  \/ LoadTileHit(t)
  \/ LoadTileMiss(t)
  \/ LoadTileError(t)
  \/ ImageLoads(t)
  \/ ImageFails(t)
  \/ FetchFails(t)
  \/ FetchSucceeds(t)
  \/ BlobFails(t)
  \/ BlobArrives(t)
  \/ ProviderSaveInitOk(t)
  \/ ProviderSaveInitFail(t)
  \/ ProviderSaveOk(t)
  \/ ProviderSaveError(t)

\* a direct caller saving and clearing while the tile layer works
ProviderStoreNext ==
  \/ \E t \in CallerTiles, b \in Blobs : saveTile("caller1", t, b)
  \/ clear("caller1")
  \/ ClientInitOk("caller1")
  \/ ClientInitFail("caller1")
  \/ SaveTileDone("caller1")
  \/ ClearDone("caller1")
  \/ ClientTxError("caller1")

ProviderNext ==
  \/ createTile(1)
  \/ ProviderSettles(1)
  \/ ProviderStoreNext

\* the Caching Tile Provider serving a tile next to a direct caller
SpecProvider == Init /\ [][ProviderNext]_vars

(***************************************************************************)
(* The useTilePreload hook of the host.  Every AsyncStorage call is        *)
(* awaited; storageOps holds the calls not yet resumed, oldest first.  The *)
(* storage serves them in the order issued and resumes each caller when    *)
(* its call has settled.                                                   *)
(***************************************************************************)
StorageOp(op, ev) ==
  [op |-> op, result |-> "queued", value |-> "null", event |-> ev]

\* progress records handed to handleProgress
HookEvents ==
  {[total |-> Len(tiles), loaded |-> 0, failed |-> 0, percentage |-> pct,
    isComplete |-> c] :
     pct \in {0, PreloadedPercentage - 1, PreloadedPercentage, 100},
     c \in BOOLEAN}

\* a faulty variant of MarksPreloaded: percentage > 90
MarksPreloadedAbove(ev) ==
  ev.isComplete /\ ev.percentage > PreloadedPercentage

\* if (newProgress.isComplete && newProgress.percentage >= 90)
MarksPreloaded(ev) ==
  ev.isComplete /\ ev.percentage >= PreloadedPercentage

\* handleProgress up to its await: setProgress, then setItem when the run
\* is reported complete
handleProgress(ev) ==
  /\ hookProgress' = <<ev>>
  /\ IF MarksPreloaded(ev)
     THEN /\ Len(storageOps) < MaxStorageOps
          /\ storageOps' = Append(storageOps, StorageOp("setItem", <<ev>>))
     ELSE UNCHANGED storageOps
  /\ UNCHANGED <<preloadStatus, isPreloaded, isFirstLoad, mountRead, storeVars,
                 preloadVars, ccVars, providerVars, dataVars, urlVars>>

\* resetPreloadStatus up to its await: removeItem
resetPreloadStatus ==
  /\ Len(storageOps) < MaxStorageOps
  /\ storageOps' = Append(storageOps, StorageOp("removeItem", <<>>))
  /\ UNCHANGED <<preloadStatus, hookProgress, isPreloaded, isFirstLoad, mountRead,
                 storeVars, preloadVars, ccVars, providerVars, dataVars, urlVars>>

\* the oldest call not yet served
NextQueued ==
  CHOOSE k \in 1..Len(storageOps) :
    /\ storageOps[k].result = "queued"
    /\ \A j \in 1..(k - 1) : storageOps[j].result # "queued"

\* AsyncStorage serves the oldest call: getItem reads the value, setItem
\* stores 'true', removeItem deletes the key
StorageServes ==
  /\ \E k \in 1..Len(storageOps) : storageOps[k].result = "queued"
  /\ LET k == NextQueued
         o == storageOps[k]
     IN /\ storageOps' = [storageOps EXCEPT
                            ![k] = [o EXCEPT !.result = "ok",
                                             !.value = preloadStatus]]
        /\ preloadStatus' = CASE o.op = "setItem" -> "true"
                              [] o.op = "removeItem" -> "null"
                              [] OTHER -> preloadStatus
        /\ mountRead' = IF o.op = "getItem" THEN "ok" ELSE mountRead
  /\ UNCHANGED <<hookProgress, isPreloaded, isFirstLoad, storeVars,
                 preloadVars, ccVars, providerVars, dataVars, urlVars>>

\* AsyncStorage fails the oldest call and leaves the stored value alone
StorageFails ==
  /\ \E k \in 1..Len(storageOps) : storageOps[k].result = "queued"
  /\ storageOps' = [storageOps EXCEPT ![NextQueued].result = "failed"]
  /\ mountRead' = IF storageOps[NextQueued].op = "getItem" THEN "failed"
                  ELSE mountRead
  /\ UNCHANGED <<preloadStatus, hookProgress, isPreloaded, isFirstLoad,
                 storeVars, preloadVars, ccVars, providerVars, dataVars, urlVars>>

\* a faulty variant of Resumes: the state is updated whether or not the
\* awaited storage call succeeded
ResumesDespiteFailure ==
  /\ storageOps # <<>>
  /\ Head(storageOps).result # "queued"
  /\ storageOps' = Tail(storageOps)
  /\ LET o == Head(storageOps)
     IN CASE o.op = "getItem" /\ o.value = "true" ->
               /\ isPreloaded' = TRUE
               /\ isFirstLoad' = FALSE
               /\ UNCHANGED hookProgress
          [] o.op = "setItem" ->
               /\ isPreloaded' = TRUE
               /\ isFirstLoad' = FALSE
               /\ UNCHANGED hookProgress
          [] o.op = "removeItem" ->
               /\ isPreloaded' = FALSE
               /\ isFirstLoad' = TRUE
               /\ hookProgress' = <<>>
          [] OTHER -> UNCHANGED <<hookProgress, isPreloaded, isFirstLoad>>
  /\ UNCHANGED <<preloadStatus, mountRead, storeVars, preloadVars, ccVars,
                 providerVars, dataVars, urlVars>>

\* the caller of the oldest settled call resumes after its await; a
\* rejected call lands in the catch block, which only warns
Resumes ==
  /\ storageOps # <<>>
  /\ Head(storageOps).result # "queued"
  /\ storageOps' = Tail(storageOps)
  /\ LET o == Head(storageOps)
     IN CASE o.result = "ok" /\ o.op = "getItem" /\ o.value = "true" ->
               /\ isPreloaded' = TRUE
               /\ isFirstLoad' = FALSE
               /\ UNCHANGED hookProgress
          [] o.result = "ok" /\ o.op = "setItem" ->
               /\ isPreloaded' = TRUE
               /\ isFirstLoad' = FALSE
               /\ UNCHANGED hookProgress
          [] o.result = "ok" /\ o.op = "removeItem" ->
               /\ isPreloaded' = FALSE
               /\ isFirstLoad' = TRUE
               /\ hookProgress' = <<>>
          [] OTHER -> UNCHANGED <<hookProgress, isPreloaded, isFirstLoad>>
  /\ UNCHANGED <<preloadStatus, mountRead, storeVars, preloadVars, ccVars,
                 providerVars, dataVars, urlVars>>

\* the app is started again: fresh hook state, the mount effect reads the
\* stored value; calls the storage had not served are lost
Restart ==
  /\ hookProgress' = <<>>
  /\ isPreloaded' = FALSE
  /\ isFirstLoad' = TRUE
  /\ storageOps' = <<StorageOp("getItem", <<>>)>>
  /\ mountRead' = "pending"
  /\ UNCHANGED <<preloadStatus, storeVars, preloadVars, ccVars,
                 providerVars, dataVars, urlVars>>

HookNext ==
  \/ \E ev \in HookEvents : handleProgress(ev)
  \/ resetPreloadStatus
  \/ StorageServes
  \/ StorageFails
  \/ Resumes
  \/ Restart

\* the hook and the durable storage of the host
SpecHook == Init /\ [][HookNext]_vars

PreloaderNext ==
  \/ \E c \in Concurrencies : preloadAll(c)
  \/ \E i \in TileIds : preloadTile(i)
  \/ PromiseAllSettles
  \/ TimerFires

\* one preload run with two tiles per batch next to the tile layer
SharedNext ==
  \/ createTile(1)
  \/ ProviderSettles(1)
  \/ (runs = 0 /\ preloadAll(2))
  \/ \E i \in TileIds : preloadTile(i)
  \/ PromiseAllSettles
  \/ TimerFires

\* the Caching Tile Provider and the Bulk Preloader sharing the Tile Store
SpecShared == Init /\ [][SharedNext]_vars

\* the operations, of different components, that are in flight
Bit(b) == IF b THEN 1 ELSE 0
Busy ==
  Bit(req[1].pc \notin {"idle", "ready", "error"}
        \/ req[1].saveInit + req[1].saveTx > 0)
  + Bit(isPreloading)
  + Bit(cc.pc \in {"hasTile.init", "hasTile.tx"})
  + Bit(clients["caller1"].pc \in {"init", "tx"})

\* every user of the Tile Store at work: the tile layer until it has
\* fetched its tile, one preload run, checkCachedCount, getStats and clear,
\* an operation being started while fewer than MaxBusy others are in flight
EntriesNext ==
  \/ (Busy < MaxBusy /\ req[1].fetches = 0 /\ createTile(1))
  \/ ProviderSettles(1)
  \/ (Busy < MaxBusy /\ runs = 0 /\ preloadAll(1))
  \/ \E i \in TileIds : preloadTile(i)
  \/ PromiseAllSettles
  \/ TimerFires
  \/ (Busy < MaxBusy /\ checkCachedCount)
  \/ CcInitOk
  \/ CcInitFail
  \/ CcHasTileOk
  \/ CcHasTileError
  \/ (Busy < MaxBusy /\ clear("caller1"))
  \/ (Busy < MaxBusy /\ getStats("caller1"))
  \/ ClientInitOk("caller1")
  \/ ClientInitFail("caller1")
  \/ ClearDone("caller1")
  \/ GetStatsOk("caller1")
  \/ ClientTxError("caller1")

SpecEntries == Init /\ [][EntriesNext]_vars

\* cache invalidation racing the preloader
ClearNext ==
  \/ clear("caller1")
  \/ ClientInitOk("caller1")
  \/ ClientInitFail("caller1")
  \/ ClearDone("caller1")
  \/ ClientTxError("caller1")

Next == PreloaderNext \/ ClearNext

\* the Bulk Preloader, racing cache resets
Spec == Init /\ [][Next]_vars

\* checkCachedCount racing preload runs that process one tile at a time
NextCount ==
  \/ CountNext
  \/ preloadAll(1)
  \/ \E i \in TileIds : preloadTile(i)
  \/ PromiseAllSettles
  \/ TimerFires

SpecCount == Init /\ [][NextCount]_vars

\* every awaited operation and every pacing timer eventually settles
Settles ==
  \/ \E i \in TileIds : preloadTile(i)
  \/ PromiseAllSettles
  \/ TimerFires

FairSpec == Init /\ [][PreloaderNext]_vars /\ WF_vars(Settles)

(***************************************************************************)
(* The preloader's progress events relayed to the hook.                    *)
(***************************************************************************)
\* the message channel hands the payload of the latest progress event to
\* the hook's handleProgress
BridgeDelivers ==
  /\ runs > 0
  /\ handleProgress(progress)

RelayNext ==
  \/ runs = 0 /\ saveTile("caller1", 1, TileImage(1))
  \/ ClientInitOk("caller1")
  \/ SaveTileDone("caller1")
  \/ runs = 0 /\ preloadAll(2)
  \/ \E i \in TileIds : preloadTile(i)
  \/ PromiseAllSettles
  \/ TimerFires
  \/ BridgeDelivers
  \/ StorageServes
  \/ StorageFails
  \/ Resumes

\* one preload run over a store a direct caller may have written to, the
\* channel, the hook and the host's durable storage
SpecRelay == Init /\ [][RelayNext]_vars

(***************************************************************************)
(* TilePreloader.getTileUrl.  A URL is the sequence of the pieces of the   *)
(* template, cut at its placeholders; String.prototype.replace with a      *)
(* string pattern substitutes the first occurrence only.                   *)
(***************************************************************************)
cdnUrl == <<"https://cartodb-basemaps-", "{s}",
            ".global.ssl.fastly.net/rastertiles/voyager/", "{z}", "/",
            "{x}", "/", "{y}", ".png">>

subdomains == <<"a", "b", "c", "d">>

zoomLevels == {14, 15, 16, 17, 18}

MathAbs(n) == IF n < 0 THEN 0 - n ELSE n

replace(url, pattern, replacement) ==
  IF \E k \in 1..Len(url) : url[k] = pattern
  THEN LET k == CHOOSE k \in 1..Len(url) :
                  url[k] = pattern /\ \A j \in 1..(k - 1) : url[j] # pattern
       IN [url EXCEPT ![k] = replacement]
  ELSE url

\* a faulty variant of getTileUrl: the subdomain is chosen from x alone
getTileUrlByX(z, x, y) ==
  LET subdomain == subdomains[(MathAbs(x) % Len(subdomains)) + 1]
  IN replace(replace(replace(replace(cdnUrl, "{s}", subdomain),
                             "{z}", ToString(z)),
                     "{x}", ToString(x)),
             "{y}", ToString(y))

getTileUrl(z, x, y) ==
  LET subdomain == subdomains[(MathAbs(x + y) % Len(subdomains)) + 1]
  IN replace(replace(replace(replace(cdnUrl, "{s}", subdomain),
                             "{z}", ToString(z)),
                     "{x}", ToString(x)),
             "{y}", ToString(y))

\* the tile coordinates getTileUrl is called with
Coordinates ==
  {tiles[i] : i \in TileIds} \cup
  [z : zoomLevels, x : 0..MaxCoord, y : 0..MaxCoord]

\* one call of getTileUrl
TileUrlCall(tile) ==
  /\ tileArg' = tile
  /\ tileUrl' = getTileUrl(tile.z, tile.x, tile.y)
  /\ UNCHANGED <<storeVars, preloadVars, ccVars, providerVars, hookVars,
                 dataVars>>

UrlNext == \E tile \in Coordinates : TileUrlCall(tile)

SpecUrl == Init /\ [][UrlNext]_vars

(***************************************************************************)
(* DataService over MockRepository.  A step runs from the firing of the    *)
(* repository's delay timer through the continuations it resumes, up to    *)
(* the next awaited delay.                                                 *)
(***************************************************************************)
DsOps == {"getProcessions", "createProcession", "updateProcession",
          "deleteProcession", "refresh"}

Mutations == {"createProcession", "updateProcession", "deleteProcession"}

RECURSIVE MaxId(_)
\* generateId's reduce: the largest numeric id, 0 for an empty list
MaxId(ps) ==
  IF ps = <<>> THEN 0
  ELSE LET m == MaxId(Tail(ps)) IN IF Head(ps).id > m THEN Head(ps).id ELSE m

generateId(ps) == MaxId(ps) + 1

\* Array.prototype.findIndex by id, 1-based; 0 stands for -1
findIndex(ps, id) ==
  IF \E k \in 1..Len(ps) : ps[k].id = id
  THEN CHOOSE k \in 1..Len(ps) :
         ps[k].id = id /\ \A j \in 1..(k - 1) : ps[j].id # id
  ELSE 0

\* MockRepository.create: push a procession under a generated id
RepoCreate(ps, rev) == Append(ps, [id |-> generateId(ps), rev |-> rev])

\* MockRepository.update: `{...existing, ...data}` stored at the index found
RepoUpdate(ps, id, rev) ==
  [ps EXCEPT ![findIndex(ps, id)] = [id |-> id, rev |-> rev]]

\* MockRepository.delete: splice(index, 1)
RepoDelete(ps, id) ==
  LET k == findIndex(ps, id)
  IN SubSeq(ps, 1, k - 1) \o SubSeq(ps, k + 1, Len(ps))

\* updateProcession's cache patch: `this.cache[index] = updatedProcession`
CachePatch(cch, id, rev) ==
  IF cch = <<>> \/ findIndex(cch[1], id) = 0 THEN cch
  ELSE <<[cch[1] EXCEPT ![findIndex(cch[1], id)] = [id |-> id, rev |-> rev]]>>

CacheFilterKeeps(cch, id) == cch

\* deleteProcession's cache patch: `this.cache.filter(p => p.id !== id)`
CacheFilter(cch, id) ==
  IF cch = <<>> THEN cch
  ELSE <<SelectSeq(cch[1], LAMBDA p : p.id # id)>>

DsFree(c) == dsCalls[c].pc \in {"idle", "resolved", "rejected"}

\* caller c's call is now operation op at position pc; the arguments are
\* kept while the call is in flight
DsCall(c, op, id, rev, pc) ==
  dsCalls' = [dsCalls EXCEPT
                ![c] = IF pc \in {"resolved", "rejected"}
                       THEN [IdleCall EXCEPT !.op = op, !.pc = pc]
                       ELSE [op |-> op, pc |-> pc, id |-> id, rev |-> rev]]

\* this.notifyListeners(list), which every operation but getProcessions
\* calls before it returns
notifyListeners(op, list) ==
  notified' = IF op = "getProcessions" THEN notified ELSE <<list>>

\* `await this.getProcessions()` inside operation op, the cache being cch:
\* a cached list is returned at once, otherwise repository.getAll is awaited
ReadThrough(c, op, id, rev, cch) ==
  IF cch # <<>>
  THEN DsCall(c, op, id, rev, "resolved") /\ notifyListeners(op, cch[1])
  ELSE DsCall(c, op, id, rev, "getAll") /\ UNCHANGED notified

getProcessions(c) ==
  /\ DsFree(c)
  /\ ReadThrough(c, "getProcessions", 0, 0, cache)
  /\ UNCHANGED <<repo, cache, urlVars, storeVars, preloadVars, ccVars,
                 providerVars, hookVars>>

\* refresh: clearCache() and the read are issued in the call itself
refresh(c) ==
  /\ DsFree(c)
  /\ cache' = <<>>
  /\ ReadThrough(c, "refresh", 0, 0, <<>>)
  /\ UNCHANGED <<repo, urlVars, storeVars, preloadVars, ccVars,
                 providerVars, hookVars>>

PendingCreates == Cardinality({c \in Callers : dsCalls[c].pc = "create"})

createProcession(c, rev) ==
  /\ DsFree(c)
  /\ Len(repo) + PendingCreates < MaxProcessions
  /\ DsCall(c, "createProcession", 0, rev, "create")
  /\ UNCHANGED <<repo, cache, notified, urlVars, storeVars, preloadVars,
                 ccVars, providerVars, hookVars>>

updateProcession(c, id, rev) ==
  /\ DsFree(c)
  /\ DsCall(c, "updateProcession", id, rev, "update")
  /\ UNCHANGED <<repo, cache, notified, urlVars, storeVars, preloadVars,
                 ccVars, providerVars, hookVars>>

deleteProcession(c, id) ==
  /\ DsFree(c)
  /\ DsCall(c, "deleteProcession", id, 0, "delete")
  /\ UNCHANGED <<repo, cache, notified, urlVars, storeVars, preloadVars,
                 ccVars, providerVars, hookVars>>

\* a faulty variant of GetAllReturns: the list read is not cached
GetAllReturnsUncached(c) ==
  /\ dsCalls[c].pc = "getAll"
  /\ DsCall(c, dsCalls[c].op, 0, 0, "resolved")
  /\ notifyListeners(dsCalls[c].op, repo)
  /\ UNCHANGED <<repo, cache, urlVars, storeVars, preloadVars, ccVars,
                 providerVars, hookVars>>

\* repository.getAll() resolves with a copy of the list; getProcessions
\* caches it and returns it, and the operation that awaited it notifies the
\* listeners and resolves
GetAllReturns(c) ==
  /\ dsCalls[c].pc = "getAll"
  /\ cache' = <<repo>>
  /\ DsCall(c, dsCalls[c].op, 0, 0, "resolved")
  /\ notifyListeners(dsCalls[c].op, repo)
  /\ UNCHANGED <<repo, urlVars, storeVars, preloadVars, ccVars,
                 providerVars, hookVars>>

\* repository.create() resolves: clearCache(), then the read through
CreateReturns(c) ==
  /\ dsCalls[c].pc = "create"
  /\ repo' = RepoCreate(repo, dsCalls[c].rev)
  /\ cache' = <<>>
  /\ ReadThrough(c, "createProcession", 0, 0, <<>>)
  /\ UNCHANGED <<urlVars, storeVars, preloadVars, ccVars, providerVars,
                 hookVars>>

\* repository.update() settles: it throws for an unknown id, otherwise the
\* cache is patched if it exists, then the read through
UpdateReturns(c) ==
  /\ dsCalls[c].pc = "update"
  /\ IF findIndex(repo, dsCalls[c].id) = 0
     THEN /\ DsCall(c, "updateProcession", 0, 0, "rejected")
          /\ UNCHANGED <<repo, cache, notified>>
     ELSE /\ repo' = RepoUpdate(repo, dsCalls[c].id, dsCalls[c].rev)
          /\ cache' = CachePatch(cache, dsCalls[c].id, dsCalls[c].rev)
          /\ ReadThrough(c, "updateProcession", 0, 0, cache')
  /\ UNCHANGED <<urlVars, storeVars, preloadVars, ccVars, providerVars,
                 hookVars>>

\* repository.delete() settles: it throws for an unknown id, otherwise the
\* cache is filtered if it exists, then the read through
DeleteReturns(c) ==
  /\ dsCalls[c].pc = "delete"
  /\ IF findIndex(repo, dsCalls[c].id) = 0
     THEN /\ DsCall(c, "deleteProcession", 0, 0, "rejected")
          /\ UNCHANGED <<repo, cache, notified>>
     ELSE /\ repo' = RepoDelete(repo, dsCalls[c].id)
          /\ cache' = CacheFilter(cache, dsCalls[c].id)
          /\ ReadThrough(c, "deleteProcession", 0, 0, cache')
  /\ UNCHANGED <<urlVars, storeVars, preloadVars, ccVars, providerVars,
                 hookVars>>

ProcIds == 1..MaxProcessions

DataNext ==
  \/ \E c \in Callers : getProcessions(c)
  \/ \E c \in Callers : refresh(c)
  \/ \E c \in Callers, rev \in Revs : createProcession(c, rev)
  \/ \E c \in Callers, id \in ProcIds, rev \in Revs :
       updateProcession(c, id, rev)
  \/ \E c \in Callers, id \in ProcIds : deleteProcession(c, id)
  \/ \E c \in Callers : GetAllReturns(c)
  \/ \E c \in Callers : CreateReturns(c)
  \/ \E c \in Callers : UpdateReturns(c)
  \/ \E c \in Callers : DeleteReturns(c)

SpecData == Init /\ [][DataNext]_vars

(***************************************************************************)
(* Properties.                                                             *)
(***************************************************************************)
N == Len(tiles)

Settled(p) == p.loaded + p.failed

Resolved == runResult.state = "resolved"

\* C1: a preloadAll call made while isPreloading is true changes neither
\* the progress record, nor isPreloading, nor any tile attempt, nor the
\* queue and batch of the run in flight, and issues no fetch or saveTile.
C1_BusyCallIsNoOp ==
  [][(isPreloading /\ calls' # calls) =>
       /\ progress' = progress
       /\ isPreloading' = isPreloading
       /\ attempt' = attempt
       /\ queue' = queue
       /\ batch' = batch
       /\ runPc' = runPc
       /\ runs' = runs
       /\ runStats' = runStats
       /\ runResult' = runResult]_vars

\* a call was ignored while the run in flight had already counted a tile
C1_Witness ==
  /\ calls > runs
  /\ isPreloading
  /\ Settled(progress) > 0
  /\ runResult.state = "pending"

\* C2: loaded + failed never exceeds total, in every reachable state.
C2_CountWithinTotal == Settled(progress) <= progress.total

\* a second run that found a cached tile, fetched another and had a failure
C2_Witness ==
  /\ runs = 2
  /\ progress.isComplete
  /\ progress.failed > 0
  /\ progress.loaded > 0
  /\ runStats.fetches < progress.total

\* C3: in the current progress record and in the record a run returned,
\* isComplete is true exactly when loaded + failed = total.
C3_CompleteIffAllSettled ==
  /\ progress.isComplete <=> (Settled(progress) = progress.total)
  /\ Resolved =>
       (runResult.value.isComplete <=>
          (Settled(runResult.value) = runResult.value.total))

\* a returned record that is complete although a tile failed
C3_Witness ==
  /\ Resolved
  /\ runResult.value.isComplete
  /\ runResult.value.failed > 0

IsRoundedPercentage(p) ==
  /\ p.percentage \in 0..100
  /\ (2 * p.percentage - 1) * p.total <= 200 * Settled(p)
  /\ 200 * Settled(p) < (2 * p.percentage + 1) * p.total

\* C4: percentage is the integer nearest to 100 * (loaded + failed) / total
\* (halves rounded up) and lies in 0..100.
C4_PercentageRounded ==
  /\ IsRoundedPercentage(progress)
  /\ Resolved => IsRoundedPercentage(runResult.value)

\* a run part of the way, with loaded and failed tiles both counted
C4_Witness ==
  /\ isPreloading
  /\ progress.loaded > 0
  /\ progress.failed > 0
  /\ progress.percentage \notin {0, 100}

\* C5: a run started on an empty store in which no fetch and no store write
\* failed issued exactly N saveTile calls and returned
\* {total N, loaded N, failed 0, percentage 100, isComplete true}.
C5_CleanRun ==
  (Resolved /\ runStats.emptyStart /\ runStats.faults = 0) =>
    /\ runStats.saves = N
    /\ runResult.value = [total |-> N, loaded |-> N, failed |-> 0,
                          percentage |-> 100, isComplete |-> TRUE]

\* such a run, with all tiles in a single batch
C5_Witness ==
  /\ Resolved
  /\ runStats.emptyStart
  /\ runStats.faults = 0
  /\ runStats.saves = N
  /\ concurrency >= N

\* C6: a run over N uncached tiles in which k attempts hit a fetch error,
\* a non-success status or a saveTile error returns failed = k,
\* loaded = N - k and isComplete = true.
C6_FailuresCounted ==
  (Resolved /\ runStats.emptyStart) =>
    /\ runResult.value.failed = runStats.faults
    /\ runResult.value.loaded = N - runStats.faults
    /\ runResult.value.isComplete

\* one tile failed, the others were still attempted and loaded
C6_Witness ==
  /\ Resolved
  /\ runStats.emptyStart
  /\ runStats.faults = 1
  /\ runResult.value.loaded = N - 1

\* C7: no tile attempt rejects and the promise of preloadAll never rejects,
\* whatever store reads, fetches and store writes fail.
C7_NeverRejects ==
  /\ runResult.state # "rejected"
  /\ runPc # "rejected"
  /\ \A i \in TileIds : attempt[i].pc # "rejected"

\* a run that resolved after a store read failure and two other failures
C7_Witness ==
  /\ Resolved
  /\ runStats.readFailed
  /\ runStats.faults >= 2
  /\ runResult.value.loaded > 0

\* the call of caller c settles successfully in this step
SettlesOk(c) ==
  /\ clients[c].pc = "tx"
  /\ clients'[c].pc = "done"
  /\ clients'[c].status = "ok"

\* C8: when tile t was saved successfully and neither a later saveTile to
\* the same key nor a clear has completed since (saved[t] is that blob), a
\* getTile(t) that completes returns that blob and a hasTile(t) returns true.
C8_RoundTrip ==
  [][\A c \in Callers :
       (SettlesOk(c) /\ saved[clients[c].tile] # Undefined) =>
         /\ clients[c].op = "getTile" =>
              clients'[c].value = saved[clients[c].tile]
         /\ clients[c].op = "hasTile" => clients'[c].value = "true"]_vars

\* a getTile returned the blob that the other caller had saved for the
\* tile, while another tile holds a different blob
C8_Witness ==
  /\ clients["caller1"].op = "getTile"
  /\ clients["caller1"].pc = "done"
  /\ clients["caller1"].status = "ok"
  /\ clients["caller1"].value \in Blobs
  /\ clients["caller1"].value = saved[clients["caller1"].tile]
  /\ clients["caller2"].op = "saveTile"
  /\ clients["caller2"].status = "ok"
  /\ clients["caller2"].tile = clients["caller1"].tile
  /\ \E t \in CallerTiles : saved[t] \in Blobs \ {clients["caller1"].value}

\* a step of checkCachedCount (and not the bookkeeping of storeChanged)
CcMoved == <<cc.pc, cc.idx, cc.cached>>' # <<cc.pc, cc.idx, cc.cached>>

CcReturns == cc.pc # "returned" /\ cc'.pc = "returned"

\* checkCachedCount issues no fetch and no saveTile, starts no attempt and
\* leaves the store, the progress record and isPreloading alone
CcFrame ==
  CcMoved => /\ progress' = progress
             /\ isPreloading' = isPreloading
             /\ runStats' = runStats
             /\ attempt' = attempt
             /\ store' = store

\* C9 as stated: checkCachedCount changes nothing and returns total = N and
\* cached = the number of TileSet tiles present in the store at that moment.
C9_ReturnsPresentCount ==
  [][/\ CcFrame
     /\ CcReturns => cc'.cached = Cardinality(Present(store'))]_vars

\* C9 amended: checkCachedCount changes nothing and returns total = N and
\* 0 <= cached <= N; cached is the number of TileSet tiles present in the
\* store when no store read failed during the walk and the set of stored
\* tiles did not change during the walk.
C9_ReturnsCheckedCount ==
  [][/\ CcFrame
     /\ CcReturns =>
          /\ cc'.cached \in 0..N
          /\ (~cc'.readFailed /\ ~cc'.storeChanged) =>
               cc'.cached = Cardinality(Present(store'))]_vars

\* a walk made during a preload run that counted some tiles, not all
C9_Witness ==
  /\ cc.pc = "returned"
  /\ ~cc.readFailed
  /\ ~cc.storeChanged
  /\ cc.cached > 0
  /\ cc.cached < N
  /\ cc.cached = Cardinality(Present(store))
  /\ isPreloading
  /\ Settled(progress) > 0

\* C10: under FairSpec every run in flight eventually resolves with a
\* complete progress record and isPreloading false, and a preloadAll call
\* made while isPreloading is false starts a fresh run.
C10_Lifecycle ==
  /\ (isPreloading /\ runResult.state = "pending") ~>
       (~isPreloading /\ Resolved /\ runResult.value.isComplete)
  /\ [][(~isPreloading /\ calls' # calls) =>
          /\ isPreloading'
          /\ runs' = runs + 1
          /\ progress' = InitialProgress
          /\ runResult'.state = "pending"
          /\ batch' # {}]_vars

\* a second run, started after the first one resolved, has resolved too
C10_Witness ==
  /\ runs = 2
  /\ Resolved
  /\ ~isPreloading
  /\ runPc = "idle"

\* the store check of the attempt for tile i settles in this step
CheckSettles(i) ==
  /\ attempt[i].pc = "getTile.tx"
  /\ attempt'[i] # attempt[i]

\* C11: when the store check of a preload attempt finds the tile present,
\* the tile is counted as loaded and the attempt ends there: no network
\* fetch and no saveTile call is issued and the store is left as it was
\* (a check that fails instead is the read failure of C15).
C11_PresentTileNotFetched ==
  [][\A i \in TileIds :
       (CheckSettles(i) /\ store[KeyOf(i)] # Undefined) =>
         \/ /\ runStats'.readFailed
            /\ attempt'[i].pc = "fetch"
         \/ /\ attempt'[i].pc = "loaded"
            /\ progress'.loaded = progress.loaded + 1
            /\ progress'.failed = progress.failed
            /\ runStats'.fetches = runStats.fetches
            /\ runStats'.saves = runStats.saves
            /\ store' = store]_vars

\* a second run found a tile in the store and has fetched nothing
C11_Witness ==
  /\ runs = 2
  /\ runStats.fetches = 0
  /\ runStats.saves = 0
  /\ ~runStats.readFailed
  /\ \E i \in TileIds : attempt[i].pc = "loaded" /\ store[KeyOf(i)] # Undefined
  /\ progress.loaded >= 1

\* saveTile calls of the provider for tile t that have not settled
SavesInFlight(r) == r.saveInit + r.saveTx

\* the display path of the request for tile t takes a step
DisplayMoves(t) ==
  <<req'[t].pc, req'[t].src, req'[t].fetches>> #
    <<req[t].pc, req[t].src, req[t].fetches>>

SaveSettles(t) ==
  \/ req'[t].saveInit < req[t].saveInit
  \/ req'[t].saveTx < req[t].saveTx

\* C13: the fetched blob is displayed in the step that calls saveTile,
\* the settling of a saveTile call (success or failure) changes nothing of
\* the display path, and so never signals tile error.
C13_DisplayIgnoresSave ==
  [][\A t \in TileIds :
       /\ (req[t].pc = "blob" /\ req'[t].pc = "decode") =>
            /\ req'[t].src = TileImage(t)
            /\ SavesInFlight(req'[t]) > 0
       /\ SaveSettles(t) =>
            /\ ~DisplayMoves(t)
            /\ req'[t].pc = req[t].pc]_vars

\* tile ready was signalled for a fetched blob whose saveTile is pending
C13_Witness ==
  /\ req[1].pc = "ready"
  /\ ~req[1].fromCache
  /\ req[1].src = TileImage(1)
  /\ SavesInFlight(req[1]) > 0
  /\ store[KeyOf(1)] = Undefined

\* tile ready was signalled for a fetched blob whose saveTile failed
C13_ReadyAfterFailedSave ==
  /\ req[1].pc = "ready"
  /\ ~req[1].fromCache
  /\ req[1].saveFailed
  /\ SavesInFlight(req[1]) = 0
  /\ store[KeyOf(1)] = Undefined

\* C14: a fetch that fails or returns a non-success status signals tile
\* error, calls no saveTile, leaves the store as it is and issues no other
\* fetch; after tile error the request issues no fetch at all.
C14_FetchFailureIsTileError ==
  [][\A t \in TileIds :
       /\ (DisplayMoves(t) /\ req[t].pc = "fetch"
             /\ req'[t].pc # "blob") =>
            /\ req'[t].pc = "error"
            /\ req'[t].fetches = req[t].fetches
            /\ SavesInFlight(req'[t]) = SavesInFlight(req[t])
            /\ store' = store
       /\ (DisplayMoves(t) /\ req[t].pc = "error") =>
            /\ req'[t].pc \in {"getTile.init", "getTile.tx"}
            /\ req'[t].fetches = req[t].fetches
            /\ SavesInFlight(req'[t]) = SavesInFlight(req[t])]_vars

\* tile error after a single fetch, with nothing stored and no saveTile
C14_Witness ==
  /\ req[1].pc = "error"
  /\ req[1].fetches = 1
  /\ SavesInFlight(req[1]) = 0
  /\ ~req[1].saveFailed
  /\ store[KeyOf(1)] = Undefined

ReadPcs == {"getTile.init", "getTile.tx"}

\* C15: whatever way the store read of a tile request or of a preload
\* attempt settles, failure to open the store included, the request does
\* not signal tile error and the attempt is not counted as failed: a
\* failed read moves both on to the network fetch.
C15_ReadFailureIsMiss ==
  [][/\ \A t \in TileIds :
          (DisplayMoves(t) /\ req[t].pc \in ReadPcs) =>
            /\ req'[t].pc \in {"getTile.tx", "decode", "fetch"}
            /\ (req[t].pc = "getTile.init" /\ req'[t].pc # "getTile.tx") =>
                 req'[t].pc = "fetch"
            /\ req'[t].pc = "decode" => store[KeyOf(t)] # Undefined
     /\ \A i \in TileIds :
          (attempt[i].pc \in ReadPcs /\ attempt'[i] # attempt[i]) =>
            /\ attempt'[i].pc \in {"getTile.tx", "loaded", "fetch"}
            /\ progress'.failed = progress.failed
            /\ (attempt[i].pc = "getTile.init"
                 /\ attempt'[i].pc # "getTile.tx") =>
                 attempt'[i].pc = "fetch"
     /\ (runStats'.readFailed /\ ~runStats.readFailed /\ runs' = runs) =>
          /\ progress' = progress
          /\ \E i \in TileIds : /\ attempt[i].pc \in ReadPcs
                                /\ attempt'[i].pc = "fetch"]_vars

\* the store could never be opened, yet the tile layer shows the fetched
\* tile and the preload attempt whose read failed is fetching its tile
C15_Witness ==
  /\ db = "null"
  /\ req[1].pc = "ready"
  /\ ~req[1].fromCache
  /\ req[1].src = TileImage(1)
  /\ runStats.readFailed
  /\ progress.failed = 0
  /\ \E i \in TileIds : attempt[i].pc = "blob"

\* an init call (indexedDB.open) succeeds in this step
InitCompletes == idb' # idb \/ (db = "null" /\ db' = "open")

\* C16: with the start-up init and the lazy inits of concurrent callers
\* overlapping, a completing init leaves every stored entry as it was, the
\* object store is created only while the database has none, and from the
\* first successful init on the store stays open with its object store:
\* a caller whose own init resolves goes on to its transaction.
C16_InitIdempotent ==
  [][/\ InitCompletes => (store' = store /\ saved' = saved)
     /\ idb'.created > idb.created =>
          (~idb.hasStore /\ idb'.created = idb.created + 1)
     /\ idb.hasStore => idb'.hasStore
     /\ db' = "open" => (idb'.hasStore /\ idb'.version = DbVersion)
     /\ db = "open" => (db' = "open" /\ idb' = idb)
     /\ \A c \in Callers :
          (clients[c].pc = "init" /\ clients'[c].status # "error") =>
            (clients'[c].pc = "init"
               \/ (clients'[c].pc = "tx" /\ db' = "open"))]_vars

\* entries are stored while the start-up init and the lazy init of a
\* caller are still in flight, after another init created the store
C16_Witness ==
  /\ db = "open"
  /\ idb.created = 1
  /\ bootInit = "pending"
  /\ \E c \in Callers : clients[c].pc = "init"
  /\ Present(store) # {}

\* the tiles saved since the last clear
SavedTiles == {t \in TileIds : saved[t] # Undefined}

\* C17: the store is a map from key to blob: a saveTile that succeeds
\* puts its blob under its key, replacing what was there and touching no
\* other key (so the last write wins and repeating a save changes
\* nothing); getStats returns the number of distinct keys saved since the
\* last clear; a clear that succeeds leaves no entry, and a getTile of a
\* key not saved since returns absent.
C17_StoreIsMap ==
  [][\A c \in Callers :
       (SettlesOk(c)) =>
         /\ clients[c].op = "saveTile" =>
              store' = [store EXCEPT
                          ![KeyOf(clients[c].tile)] = clients[c].blob]
         /\ clients[c].op = "getStats" =>
              clients'[c].tileCount = Cardinality(SavedTiles)
         /\ clients[c].op = "clear" =>
              /\ \A k \in Keys : store'[k] = Undefined
              /\ SavedTiles' = {}
         /\ clients[c].op = "getTile" =>
              clients'[c].value = saved[clients[c].tile]]_vars

\* getStats counted the two keys stored, one of them just written by the
\* other caller
C17_Witness ==
  /\ clients["caller1"].op = "getStats"
  /\ clients["caller1"].status = "ok"
  /\ clients["caller1"].tileCount = 2
  /\ clients["caller2"].op = "saveTile"
  /\ clients["caller2"].status = "ok"
  /\ store[KeyOf(clients["caller2"].tile)] = "blob2"
  /\ Cardinality(Present(store)) = 2

\* C18: distinct tile coordinates have distinct keys, and with saveTile
\* calls of the tile layer and of the preloader in flight together the
\* store holds, under the key of every coordinate, exactly the blob last
\* saved for that coordinate (what a getTile would return).
C18_ConcurrentSavesKeepBlobs ==
  /\ \A i, j \in TileIds : i # j => KeyOf(i) # KeyOf(j)
  /\ \A t \in TileIds : store[KeyOf(t)] = saved[t]

\* two attempts of one batch have saved their tiles while a saveTile of
\* the tile layer is still in flight
C18_Witness ==
  /\ runPc = "batch"
  /\ batch = {1, 2}
  /\ attempt[1].pc = "loaded"
  /\ attempt[2].pc = "loaded"
  /\ runStats.saves = 2
  /\ req[1].saveTx > 0
  /\ store[KeyOf(1)] = TileImage(1)
  /\ store[KeyOf(2)] = TileImage(2)

\* a successful clear completes in this step
ClearCompletes ==
  \E c \in Callers : clients[c].op = "clear" /\ SettlesOk(c)

\* C19: with tile requests, a preload run, checkCachedCount, getStats and
\* clear interleaved, a key that is stored stays stored in every step
\* except the one in which a clear completes.
C19_EntriesPersist ==
  [][(\E k \in Keys : store[k] # Undefined /\ store'[k] = Undefined)
       => ClearCompletes]_vars

\* every tile is stored after the tile layer, the preload run, the count
\* and getStats have all worked on the store
C19_Witness ==
  /\ Present(store) = TileIds
  /\ req[1].pc = "ready"
  /\ Resolved
  /\ cc.pc = "returned"
  /\ clients["caller1"].op = "getStats"
  /\ clients["caller1"].status = "ok"
  /\ clients["caller1"].tileCount = N

\* a progress event that reports a complete run at 90 percent or more
Qualifies(ev) == ev.isComplete /\ ev.percentage >= PreloadedPercentage

\* the storage serves, successfully, a call of kind op in this step (a
\* setItem being one issued for a qualifying event)
Served(op) ==
  \E k \in 1..Len(storageOps) :
    /\ Len(storageOps') = Len(storageOps)
    /\ storageOps[k].op = op
    /\ storageOps[k].result = "queued"
    /\ storageOps'[k].result = "ok"
    /\ (op = "setItem" => Qualifies(storageOps[k].event[1]))

\* the hook takes in the progress event ev in this step
Handles(ev) == hookProgress' = <<ev>> /\ hookProgress # <<ev>>

\* the caller of a removeItem that succeeded resumes in this step
ResetResumes ==
  /\ storageOps # <<>>
  /\ Head(storageOps).op = "removeItem"
  /\ Head(storageOps).result = "ok"
  /\ storageOps' = Tail(storageOps)

\* C20: the hook asks the storage to set the flag exactly for the events
\* it handles with isComplete and percentage >= 90; the stored flag
\* becomes 'true' in, and only in, the step that serves such a setItem,
\* and is removed in, and only in, the step that serves the removeItem of
\* resetPreloadStatus, which on resuming sets isPreloaded false,
\* isFirstLoad true and progress null.
C20_FlagFollowsHook ==
  [][/\ \A ev \in HookEvents :
          Handles(ev) =>
            IF Qualifies(ev)
            THEN storageOps' =
                   Append(storageOps, StorageOp("setItem", <<ev>>))
            ELSE storageOps' = storageOps
     /\ Served("setItem") => preloadStatus' = "true"
     /\ Served("removeItem") => preloadStatus' = "null"
     /\ (preloadStatus' = "true" /\ preloadStatus # "true")
          => Served("setItem")
     /\ (preloadStatus' # "true" /\ preloadStatus = "true")
          => Served("removeItem")
     /\ ResetResumes =>
          /\ isPreloaded' = FALSE
          /\ isFirstLoad' = TRUE
          /\ hookProgress' = <<>>]_vars

\* the flag was set for an event at exactly 90 percent, and the hook
\* has resumed
C20_Witness ==
  /\ preloadStatus = "true"
  /\ isPreloaded
  /\ ~isFirstLoad
  /\ storageOps = <<>>
  /\ hookProgress # <<>>
  /\ hookProgress[1].isComplete
  /\ hookProgress[1].percentage = PreloadedPercentage


\* the step in which caller c's create, update or delete call resolves
MutationResolves(c) ==
  /\ dsCalls[c].pc \in {"update", "delete", "getAll"}
  /\ dsCalls'[c].pc = "resolved"
  /\ dsCalls'[c].op \in Mutations

C30_CacheCoherent ==
  (\A c \in Callers : DsFree(c)) => (cache = <<>> \/ cache = <<repo>>)

C30_Witness ==
  /\ dsCalls["caller1"].op = "updateProcession"
  /\ dsCalls["caller1"].pc = "resolved"
  /\ dsCalls["caller2"].op = "deleteProcession"
  /\ dsCalls["caller2"].pc = "resolved"
  /\ notified = <<repo>>
  /\ cache = <<repo>>
  /\ repo # processionsData

\* the tiles whose preloadTile call has started and not yet settled
InFlight ==
  {i \in TileIds : attempt[i].pc \notin {"idle", "loaded", "failed",
                                         "rejected"}}

\* C22: batches are strictly sequential.  At most `concurrency` attempts
\* are in flight and they belong to the current batch; the attempts of a
\* batch all start in one step, the batch being the next
\* min(concurrency, remaining) tiles; and an attempt starts only when no
\* attempt is in flight, every attempt of the previous batch has settled
\* and the pacing timer has fired (or a new run begins).
C22_BatchesSequential ==
  /\ [](Cardinality(InFlight) <= concurrency /\ InFlight \subseteq batch)
  /\ [][(InFlight' \ InFlight # {}) =>
          /\ InFlight = {}
          /\ \A j \in batch : attempt[j].pc \in {"loaded", "failed"}
          /\ runPc = "delay" \/ (~isPreloading /\ runs' = runs + 1)
          /\ InFlight' = batch'
          /\ Cardinality(batch') =
               Min(concurrency', Cardinality(batch') + Len(queue'))]_vars

\* a second batch is in flight with the first batch settled
C22_Witness ==
  /\ runPc = "batch"
  /\ InFlight = batch
  /\ concurrency = 2
  /\ Cardinality({j \in TileIds \ batch :
                    attempt[j].pc \in {"loaded", "failed"}}) = 2

\* C23: updateProgress emits one progress event per call, carrying the
\* progress record as it just set it; it is called once when a run starts
\* and once per counter increment.  A run over N tiles emits exactly N + 1
\* events: the first has total N and loaded = failed = 0; every later one
\* is emitted during the run, keeps total, raises loaded + failed by
\* exactly 1 without lowering either counter, and has isComplete exactly
\* when loaded + failed = N; no event follows the complete one, and the
\* run resolves only after it.
C23_ProgressEvents ==
  /\ [][/\ (runs' # runs) =>
             progress' = [total |-> N, loaded |-> 0, failed |-> 0,
                          percentage |-> 0, isComplete |-> FALSE]
        /\ (runs' = runs /\ progress' # progress) =>
             /\ isPreloading
             /\ ~progress.isComplete
             /\ progress'.total = N
             /\ progress'.loaded >= progress.loaded
             /\ progress'.failed >= progress.failed
             /\ Settled(progress') = Settled(progress) + 1
             /\ progress'.isComplete <=> (Settled(progress') = N)]_vars
  /\ [](Resolved => (progress.isComplete /\ Settled(progress) = N))

\* a second run has emitted its last event after failures and successes
C23_Witness ==
  /\ runs = 2
  /\ Resolved
  /\ progress.isComplete
  /\ progress.loaded > 0
  /\ progress.failed > 0

\* C24: when the key is present but the stored blob fails to decode, the
\* provider does not signal a tile error: it enters the network path, that
\* is it issues the fetch of the tile's URL, whose blob is then saved and
\* displayed like on a miss.
C24_CorruptEntryRefetched ==
  [][\A t \in TileIds :
       (/\ req[t].pc = "decode"
        /\ req[t].fromCache
        /\ req'[t].pc \notin {"decode", "ready"}) =>
         /\ req'[t].pc = "fetch"
         /\ req'[t].fetches = req[t].fetches + 1]_vars

\* a tile whose stored blob failed to decode is displayed from the network
\* and the fetched blob has replaced the stored one
C24_Witness ==
  \E t \in TileIds :
    /\ req[t].pc = "ready"
    /\ req[t].onerror = "refetch"
    /\ ~req[t].fromCache
    /\ req[t].src = TileImage(t)
    /\ req[t].fetches = 1
    /\ store[KeyOf(t)] = TileImage(t)

\* C25: the URL getTileUrl returns for a tile has as its host piece
\* subdomains[(x + y) mod N], N the length of the fixed subdomain list, the
\* index lying in 0..N-1; it carries the tile's own z, x and y in the
\* places of the template's placeholders and none of the placeholders is
\* left; it is a function of the coordinate alone, and two coordinates
\* that differ give different URLs.
C25_TileUrl ==
  tileUrl # <<>> =>
    LET index == (tileArg.x + tileArg.y) % Len(subdomains)
    IN /\ index \in 0..(Len(subdomains) - 1)
       /\ tileUrl = <<cdnUrl[1], subdomains[index + 1], cdnUrl[3],
                      ToString(tileArg.z), cdnUrl[5], ToString(tileArg.x),
                      cdnUrl[7], ToString(tileArg.y), cdnUrl[9]>>
       /\ \A k \in 1..Len(tileUrl) :
            tileUrl[k] \notin {"{s}", "{z}", "{x}", "{y}"}
       /\ \A other \in Coordinates :
            (getTileUrl(other.z, other.x, other.y) = tileUrl)
              <=> (other = tileArg)

\* a URL whose subdomain index wrapped around the list
C25_Witness ==
  /\ tileUrl # <<>>
  /\ tileArg.x + tileArg.y > Len(subdomains)
  /\ tileArg.x # tileArg.y
  /\ tileUrl[2] = "b"

\* C26: within one run every tile is attempted exactly once and each
\* attempt moves exactly one counter by exactly 1, once.  An attempt
\* starts only for a tile not yet attempted in the run; an attempt that
\* settles as loaded adds 1 to loaded alone, one that settles as failed
\* adds 1 to failed alone; the counters change only in a step in which
\* exactly one attempt settles; a settled attempt is never resumed; and
\* the run ends with every tile's attempt settled.
C26_OneCountPerTile ==
  [][/\ \A i \in TileIds :
          /\ (i \in InFlight' \ InFlight) => attempt[i].pc = "idle"
          /\ (i \in InFlight /\ attempt'[i].pc = "loaded") =>
               /\ progress'.loaded = progress.loaded + 1
               /\ progress'.failed = progress.failed
          /\ (i \in InFlight /\ attempt'[i].pc = "failed") =>
               /\ progress'.failed = progress.failed + 1
               /\ progress'.loaded = progress.loaded
          /\ (attempt[i].pc \in {"loaded", "failed"}
                /\ attempt'[i] # attempt[i]) => (isPreloading /\ ~isPreloading')
     /\ (runs' = runs /\ progress' # progress) =>
          Cardinality({i \in InFlight :
                         attempt'[i].pc \in {"loaded", "failed"}}) = 1
     /\ (isPreloading /\ ~isPreloading') =>
          \A i \in TileIds : attempt[i].pc \in {"loaded", "failed"}]_vars

\* a run that went through a store read error, a failed attempt and a
\* successful save has ended
C26_Witness ==
  /\ Resolved
  /\ runStats.readFailed
  /\ runStats.faults > 0
  /\ runStats.saves > runStats.faults
  /\ progress.loaded > 0
  /\ progress.failed > 0

\* C27 as stated: a tile request issues at most one network fetch, that is
\* the fetch step is entered only from the read of the store or from the
\* failed decode of the stored blob, never after a fetch of the same
\* request; and a request that has signalled tile ready or tile error
\* moves no more until createTile is called for the tile again.
C27_OneFetchOneSignal ==
  [][\A t \in TileIds :
       /\ (req'[t].pc = "fetch" /\ req[t].pc # "fetch") =>
            \/ req[t].pc \in ReadPcs
            \/ (req[t].pc = "decode" /\ req[t].fromCache)
       /\ (req[t].pc \in {"ready", "error"} /\ req'[t].pc # req[t].pc) =>
            req'[t].pc \in {"getTile.init", "getTile.tx"}]_vars

\* the second fetch of one request has been issued: the stored blob failed
\* to decode, the fetched one failed to decode as well
C27_SecondFetch ==
  \E t \in TileIds :
    /\ req[t].pc = "fetch"
    /\ req[t].fetches = 2
    /\ req[t].onerror = "refetch"
    /\ req[t].src = TileImage(t)

\* C28: the progress event that has isComplete set, the last of a run,
\* has percentage = 100 whatever the number of failed tiles; handed to
\* handleProgress it makes the hook issue the setItem of the completion
\* flag, and once the storage has served that call the flag is 'true' and
\* the hook then sets isPreloaded, also for a run in which every tile
\* failed and nothing was stored.
C28_FlagAfterAnyCompletedRun ==
  /\ [](progress.isComplete => progress.percentage = 100)
  /\ [][/\ (/\ progress.isComplete
            /\ \/ hookProgress' # hookProgress
               \/ Len(storageOps') > Len(storageOps)) =>
             /\ hookProgress' = <<progress>>
             /\ storageOps' = Append(storageOps,
                                     StorageOp("setItem", <<progress>>))
        /\ \A k \in 1..Len(storageOps) :
             (/\ Len(storageOps') = Len(storageOps)
              /\ storageOps[k].op = "setItem"
              /\ storageOps[k].result = "queued"
              /\ storageOps'[k].result = "ok") => preloadStatus' = "true"
        /\ (/\ storageOps # <<>>
            /\ storageOps' = Tail(storageOps)
            /\ Head(storageOps).op = "setItem"
            /\ Head(storageOps).result = "ok") => isPreloaded']_vars

\* every tile failed, nothing is stored, and the flag is persisted
C28_Witness ==
  /\ Resolved
  /\ progress.failed = N
  /\ Present(store) = {}
  /\ preloadStatus = "true"
  /\ isPreloaded

\* no storage call of the hook is awaiting the storage or its continuation
HookSettled == storageOps = <<>>

\* C29 as stated: once all pending operations of the hook have settled,
\* isPreloaded equals the persisted flag.
C29_SettledMatchesFlag ==
  HookSettled => (isPreloaded <=> (preloadStatus = "true"))

\* C29: once all pending operations of the hook have settled, isPreloaded
\* set implies that the flag is stored, and the two are equal whenever the
\* mount-time read did not fail; a storage call that fails leaves the
\* stored flag as it was, and its continuation leaves isPreloaded as it
\* was.
C29_SettledMatchesFlagAfterRead ==
  /\ [](HookSettled =>
          /\ isPreloaded => preloadStatus = "true"
          /\ mountRead = "ok" => (isPreloaded <=> (preloadStatus = "true")))
  /\ [][/\ (\E k \in 1..Len(storageOps) :
              /\ Len(storageOps') = Len(storageOps)
              /\ storageOps[k].result = "queued"
              /\ storageOps'[k].result = "failed") =>
             (preloadStatus' = preloadStatus /\ isPreloaded' = isPreloaded)
        /\ (/\ storageOps # <<>>
            /\ storageOps' = Tail(storageOps)
            /\ Head(storageOps).result = "failed") =>
             (preloadStatus' = preloadStatus /\ isPreloaded' = isPreloaded)]_vars

\* all calls have settled in a session whose mount-time read succeeded and
\* in which a completed run was handled and persisted
C29_Witness ==
  /\ HookSettled
  /\ mountRead = "ok"
  /\ isPreloaded
  /\ preloadStatus = "true"
  /\ hookProgress # <<>>
====
